---- MODULE Spec2Model ----
(***************************************************************************)
(* Model of homeboy's template matcher and command dispatcher.             *)
(*                                                                         *)
(* Strings are sequences of one-character strings, so that the code's      *)
(* character-level string operations (join, replace, to_lowercase, filter, *)
(* trim) are computed and not assumed.                                     *)
(***************************************************************************)
EXTENDS Integers, Sequences, FiniteSets, TLC

(***************************************************************************)
(* Bounds of the model.                                                    *)
(***************************************************************************)
\* largest number of sections of a bundle file
MaxSections == 3
\* largest number of lines of a bundle file drawn line by line
MaxLines == 4
\* largest number of key events that the listener delivers
MaxEvents == 5
\* largest number of calls of start_recording and stop_recording
MaxCalls == 3
\* largest number of buffers that the stream hands to its callback
MaxCallbacks == 3
\* largest number of symbols that parse_symbol returns for one clause
MaxSymbols == 2
\* longest console line that the model feeds to CommandRunner::run
MaxInputLen == 2
\* largest number of `% temp` entries of a loaded bundle
MaxEntries == 2

(***************************************************************************)
(* Characters and the std string operations the code uses.                 *)
(***************************************************************************)
\* char::to_lowercase on the characters of the model
LowerOf(c) ==
    CASE c = "A" -> "a"
      [] c = "B" -> "b"
      [] c = "X" -> "x"
      [] OTHER -> c

\* char::is_alphanumeric
is_alphanumeric(c) == c \in {"a", "b", "c", "x", "y", "A", "B", "X", "1"}

\* char::is_whitespace
is_whitespace(c) == c \in {" ", "\t", "\n"}

\* str::to_lowercase
to_lowercase(s) == [i \in 1..Len(s) |-> LowerOf(s[i])]

RECURSIVE Flatten(_)
\* concatenation of a sequence of strings
Flatten(ss) == IF ss = <<>> THEN <<>> ELSE Head(ss) \o Flatten(Tail(ss))

RECURSIVE join(_, _)
\* [String]::join(sep)
join(ss, sep) ==
    IF ss = <<>> THEN <<>>
    ELSE IF Len(ss) = 1 THEN ss[1]
    ELSE ss[1] \o sep \o join(Tail(ss), sep)

\* str::replace(" ", to): every space of s becomes the string to
replace_space(s, to) == Flatten([i \in 1..Len(s) |-> IF s[i] = " " THEN to ELSE <<s[i]>>])

RECURSIVE trim_start(_)
trim_start(s) ==
    IF s # <<>> /\ is_whitespace(Head(s)) THEN trim_start(Tail(s)) ELSE s

RECURSIVE trim_end(_)
trim_end(s) ==
    IF s # <<>> /\ is_whitespace(s[Len(s)]) THEN trim_end(SubSeq(s, 1, Len(s) - 1)) ELSE s

\* str::trim
trim(s) == trim_end(trim_start(s))

(***************************************************************************)
(* Template AST (template.rs).  A Template is its sequence of clauses, a   *)
(* Clause its sequence of symbols.                                         *)
(***************************************************************************)
Text(t) == [kind |-> "Text", v |-> t]
SubtemplateCall(n) == [kind |-> "SubtemplateCall", v |-> n]
VarBind(n) == [kind |-> "VarBind", v |-> n]
Nested(t) == [kind |-> "Template", v |-> t]

Symbol(internal, optional) == [symbol |-> internal, optional |-> optional]
Clause(symbols) == [symbols |-> symbols]
Template(clauses) == [clauses |-> clauses]

(***************************************************************************)
(* TemplateParser::parse_clause (parser.rs 41-72): the symbols that        *)
(* parse_symbol returned, with every Text split into its words.            *)
(***************************************************************************)
RECURSIVE split_whitespace_from(_, _, _)
\* the words of s from position i on, word being the word that is open at i
split_whitespace_from(s, i, word) ==
    IF i > Len(s) THEN (IF word = <<>> THEN <<>> ELSE <<word>>)
    ELSE IF is_whitespace(s[i])
    THEN (IF word = <<>> THEN <<>> ELSE <<word>>) \o split_whitespace_from(s, i + 1, <<>>)
    ELSE split_whitespace_from(s, i + 1, Append(word, s[i]))

\* str::split_whitespace
split_whitespace(s) == split_whitespace_from(s, 1, <<>>)

\* parser.rs 92-100
split_words(symbol) ==
    IF symbol.kind = "Text"
    THEN LET texts(words) == [i \in 1..Len(words) |-> Text(words[i])]
         IN texts(split_whitespace(symbol.v))
    ELSE <<symbol>>

\* a split in which every word takes the flag of the symbol
symbols_to_add_all_optional(sym) ==
    LET flagged(symbol_split) ==
            [i \in 1..Len(symbol_split) |-> Symbol(symbol_split[i], sym.optional)]
    IN flagged(split_words(sym.symbol))

\* parser.rs 50-63: the symbols that take the place of sym
symbols_to_add(sym) ==
    LET flagged(symbol_split) ==
            [i \in 1..Len(symbol_split) |->
                IF i = Len(symbol_split) THEN Symbol(symbol_split[i], sym.optional)
                ELSE Symbol(symbol_split[i], FALSE)]
    IN flagged(split_words(sym.symbol))

\* parser.rs 47-71: the Clause of the split symbols
parse_clause_split(syms) ==
    Clause(Flatten([k \in 1..Len(syms) |-> symbols_to_add(syms[k])]))

(***************************************************************************)
(* Results.  Overflow is the outcome of a recursion that never returns:    *)
(* the thread's stack is exhausted and the process is aborted.             *)
(***************************************************************************)
Ok(v) == [tag |-> "Ok", val |-> v]
Err(e) == [tag |-> "Err", val |-> e]
Overflow == [tag |-> "Overflow", val |-> <<>>]

SubtemplateNotFound(n) == <<"SubtemplateNotFound", n>>
InvalidRegex == <<"InvalidRegex">>
BindingNotFound(n) == <<"BindingNotFound", n>>
InvalidParameterType(t) == <<"InvalidParameterType", t>>

(***************************************************************************)
(* Regex synthesis (matcher.rs, TemplateMatcher).  defs is the matcher's   *)
(* subtemplate_definitions: a function from subtemplate names to templates.*)
(* path is the set of subtemplate names whose bodies are being converted   *)
(* by the enclosing calls: the conversion of a name that is already on the *)
(* path calls itself with the same arguments again, so it never returns.   *)
(***************************************************************************)
NonCapOpen == <<"(", "?", ":">>
WsStar == <<"\\", "s", "*">>

\* format!("(?:{})", inner)
non_capturing(inner) == NonCapOpen \o inner \o <<")">>

\* format!("(?<{}>.*)", name)
named_group(name) == <<"(", "?", "<">> \o name \o <<">", ".", "*", ")">>

\* an optional suffix that always appends `?` to the fragment
optional_fragment_char(s, optional, parens_added) ==
    IF optional THEN s \o <<"?">> ELSE s

\* matcher.rs 80-87: the optional suffix of a symbol's fragment
optional_fragment(s, optional, parens_added) ==
    IF optional
    THEN IF parens_added THEN s \o <<"?">> ELSE NonCapOpen \o s \o <<")", "?">>
    ELSE s

\* a finish that leaves the joining spaces as they are
finish_template_spaces(joint_clauses) ==
    to_lowercase(join(joint_clauses, <<"|">>))

\* matcher.rs 92: join the clauses, widen the spaces, lower-case
finish_template(joint_clauses) ==
    to_lowercase(replace_space(join(joint_clauses, <<"|">>), WsStar))

RECURSIVE convert_template_to_regex_internal(_, _, _)
RECURSIVE convert_symbol(_, _, _)
RECURSIVE collect_symbols(_, _, _)
RECURSIVE collect_clauses(_, _, _)

\* a closure that emits the body of a called subtemplate without its group
convert_symbol_bare_call(defs, sym, path) ==
    LET k == sym.symbol.kind
        v == sym.symbol.v
        parens_added == k # "Text"
        fragment(inner) ==
            IF inner.tag # "Ok" THEN inner
            ELSE Ok(optional_fragment(CASE k = "Text" -> v
                                        [] k = "VarBind" -> named_group(v)
                                        [] k = "SubtemplateCall" -> inner.val
                                        [] OTHER -> non_capturing(inner.val),
                                      sym.optional, parens_added))
    IN fragment(IF k = "SubtemplateCall"
                THEN IF v \in DOMAIN defs
                     THEN IF v \in path THEN Overflow
                          ELSE convert_template_to_regex_internal(defs, defs[v], path \cup {v})
                     ELSE Err(SubtemplateNotFound(v))
                ELSE IF k = "Template"
                THEN convert_template_to_regex_internal(defs, v, path)
                ELSE Ok(<<>>))

\* the closure of matcher.rs 56-89: one symbol to its fragment
convert_symbol(defs, sym, path) ==
    LET k == sym.symbol.kind
        v == sym.symbol.v
        parens_added == k # "Text"
        fragment(inner) ==
            IF inner.tag # "Ok" THEN inner
            ELSE Ok(optional_fragment(CASE k = "Text" -> v
                                        [] k = "VarBind" -> named_group(v)
                                        [] OTHER -> non_capturing(inner.val),
                                      sym.optional, parens_added))
    IN fragment(IF k = "SubtemplateCall"
                THEN IF v \in DOMAIN defs
                     THEN IF v \in path THEN Overflow
                          ELSE convert_template_to_regex_internal(defs, defs[v], path \cup {v})
                     ELSE Err(SubtemplateNotFound(v))
                ELSE IF k = "Template"
                THEN convert_template_to_regex_internal(defs, v, path)
                ELSE Ok(<<>>))

\* .map(...).collect::<Result<Vec<String>, _>>(): the fragments in order,
\* or the first failure (later symbols are then not converted)
collect_symbols(defs, symbols, path) ==
    IF symbols = <<>> THEN Ok(<<>>)
    ELSE LET cons(first, rest) ==
                 IF first.tag # "Ok" THEN first
                 ELSE IF rest.tag # "Ok" THEN rest
                 ELSE Ok(<<first.val>> \o rest.val)
         IN cons(convert_symbol(defs, Head(symbols), path),
                 collect_symbols(defs, Tail(symbols), path))

\* matcher.rs 55-91: every clause to joint_symbols.join(" ")
collect_clauses(defs, clauses, path) ==
    IF clauses = <<>> THEN Ok(<<>>)
    ELSE LET cons(first, rest) ==
                 IF first.tag # "Ok" THEN first
                 ELSE IF rest.tag # "Ok" THEN rest
                 ELSE Ok(<<join(first.val, <<" ">>)>> \o rest.val)
         IN cons(collect_symbols(defs, Head(clauses).symbols, path),
                 collect_clauses(defs, Tail(clauses), path))

convert_template_to_regex_internal(defs, template, path) ==
    LET finish(joint_clauses) ==
            IF joint_clauses.tag # "Ok" THEN joint_clauses
            ELSE Ok(finish_template(joint_clauses.val))
    IN finish(collect_clauses(defs, template.clauses, path))

\* matcher.rs 48-51
anchored(body) == <<"^">> \o body \o <<"$">>

convert_template_to_regex(defs, template) ==
    LET outermost(r) == IF r.tag # "Ok" THEN r ELSE Ok(anchored(r.val))
    IN outermost(convert_template_to_regex_internal(defs, template, {}))

(***************************************************************************)
(* The regex engine (crate regex), as far as the synthesized strings use   *)
(* it: literals, `.`, `\s`, `^`, `$`, `(?:..)`, `(?<name>..)`, `|`, and    *)
(* the greedy quantifiers `?` and `*`.  Regex::new parses the string with  *)
(* the usual precedence (quantifier, then concatenation, then `|`) and     *)
(* rejects a group name that occurs twice.                                 *)
(***************************************************************************)
None == <<"None">>
Some(x) == <<"Some", x>>

NameStart == {"a", "b", "c", "x", "y", "A", "B", "X", "_"}
NameChar == NameStart \cup {"1"}
MetaChars == {"(", ")", "|", "?", "*", "+", ".", "\\", "^", "$", "[", "]", "{", "}"}

Bad == [ok |-> FALSE, node |-> <<>>, i |-> 0]
Parsed(node, i) == [ok |-> TRUE, node |-> node, i |-> i]

RECURSIVE name_end(_, _)
\* index of the `>` that closes a group name starting at i, 0 if there is none
name_end(re, i) ==
    IF i > Len(re) THEN 0
    ELSE IF re[i] = ">" THEN i
    ELSE IF re[i] \in NameChar THEN name_end(re, i + 1)
    ELSE 0

RECURSIVE parse_alt(_, _)
RECURSIVE parse_alt_rest(_, _, _)
RECURSIVE parse_cat(_, _, _)
RECURSIVE parse_atom(_, _)

parse_group(re, i, name) ==
    LET close(body) ==
            IF ~body.ok THEN Bad
            ELSE IF body.i > Len(re) \/ re[body.i] # ")" THEN Bad
            ELSE Parsed([t |-> "Grp", name |-> name, x |-> body.node], body.i + 1)
    IN close(parse_alt(re, i))

parse_atom(re, i) ==
    LET c == re[i]
    IN CASE c = "(" ->
              IF i + 2 <= Len(re) /\ re[i + 1] = "?" /\ re[i + 2] = ":"
              THEN parse_group(re, i + 3, <<>>)
              ELSE IF i + 2 <= Len(re) /\ re[i + 1] = "?" /\ re[i + 2] = "<"
              THEN LET e == name_end(re, i + 3)
                   IN IF e = 0 \/ e = i + 3 \/ re[i + 3] \notin NameStart THEN Bad
                      ELSE parse_group(re, e + 1, SubSeq(re, i + 3, e - 1))
              ELSE Bad
         [] c = "." -> Parsed([t |-> "Dot"], i + 1)
         [] c = "^" -> Parsed([t |-> "Bol"], i + 1)
         [] c = "$" -> Parsed([t |-> "Eol"], i + 1)
         [] c = "\\" ->
              IF i + 1 <= Len(re) /\ re[i + 1] = "s"
              THEN Parsed([t |-> "Space"], i + 2) ELSE Bad
         [] c \in MetaChars \ {"(", ".", "^", "$", "\\"} -> Bad
         [] OTHER -> Parsed([t |-> "Lit", c |-> c], i + 1)

\* an atom and the quantifier that follows it
parse_rep(re, i) ==
    LET quantified(a) ==
            IF ~a.ok THEN Bad
            ELSE IF a.i <= Len(re) /\ re[a.i] \in {"?", "*"}
            THEN IF a.i + 1 <= Len(re) /\ re[a.i + 1] \in {"?", "*", "+"} THEN Bad
                 ELSE Parsed([t |-> IF re[a.i] = "?" THEN "Opt" ELSE "Star", x |-> a.node],
                             a.i + 1)
            ELSE a
    IN quantified(parse_atom(re, i))

\* a concatenation: quantified atoms up to `|`, `)` or the end
parse_cat(re, i, acc) ==
    IF i > Len(re) \/ re[i] \in {"|", ")"}
    THEN Parsed([t |-> "Cat", xs |-> acc], i)
    ELSE LET more(r) == IF ~r.ok THEN Bad ELSE parse_cat(re, r.i, Append(acc, r.node))
         IN more(parse_rep(re, i))

parse_alt_rest(re, i, acc) ==
    IF i <= Len(re) /\ re[i] = "|"
    THEN LET more(r) == IF ~r.ok THEN Bad ELSE parse_alt_rest(re, r.i, Append(acc, r.node))
         IN more(parse_cat(re, i + 1, <<>>))
    ELSE Parsed([t |-> "Alt", xs |-> acc], i)

\* an alternation: concatenations separated by `|`
parse_alt(re, i) ==
    LET more(r) == IF ~r.ok THEN Bad ELSE parse_alt_rest(re, r.i, <<r.node>>)
    IN more(parse_cat(re, i, <<>>))

RECURSIVE capture_names(_)
RECURSIVE capture_names_all(_)
\* the names of the named groups of a parsed regex, in order of appearance
capture_names(node) ==
    CASE node.t = "Grp" ->
            (IF node.name = <<>> THEN <<>> ELSE <<node.name>>) \o capture_names(node.x)
      [] node.t \in {"Opt", "Star"} -> capture_names(node.x)
      [] node.t \in {"Cat", "Alt"} -> capture_names_all(node.xs)
      [] OTHER -> <<>>

capture_names_all(xs) ==
    IF xs = <<>> THEN <<>> ELSE capture_names(Head(xs)) \o capture_names_all(Tail(xs))

NoDuplicates(names) == \A i, j \in 1..Len(names) : names[i] = names[j] => i = j

\* Regex::new(&regex_str): the compiled regex, or an error
Regex_new(regex_str) ==
    LET compiled(r) ==
            IF r.ok /\ r.i = Len(regex_str) + 1 /\ NoDuplicates(capture_names(r.node))
            THEN Ok(r.node)
            ELSE Err(InvalidRegex)
    IN compiled(parse_alt(regex_str, 1))

(***************************************************************************)
(* Regex::captures: the leftmost match, and among the matches that start   *)
(* there the one a backtracking search finds first (an earlier alternative *)
(* before a later one, one more repetition before one fewer).              *)
(* matches(node, s, pos, caps) lists, in that order of preference, the     *)
(* ways node can match s from position pos on: the position after the      *)
(* match and the group spans <<first, last + 1>> recorded so far.          *)
(***************************************************************************)
At(pos, caps) == [pos |-> pos, caps |-> caps]

RECURSIVE matches(_, _, _, _)
RECURSIVE matches_cat(_, _, _)
RECURSIVE matches_alt(_, _, _, _)
RECURSIVE matches_more(_, _, _, _)

\* every way to continue each of the starts rs with the concatenation xs
matches_cat(xs, s, rs) ==
    IF rs = <<>> THEN <<>>
    ELSE IF xs = <<>> THEN rs
    ELSE matches_cat(Tail(xs), s, matches(Head(xs), s, Head(rs).pos, Head(rs).caps))
         \o matches_cat(xs, s, Tail(rs))

matches_alt(xs, s, pos, caps) ==
    IF xs = <<>> THEN <<>>
    ELSE matches(Head(xs), s, pos, caps) \o matches_alt(Tail(xs), s, pos, caps)

\* the further repetitions of star after each first repetition in rs
matches_more(star, s, pos, rs) ==
    IF rs = <<>> THEN <<>>
    ELSE (IF Head(rs).pos > pos THEN matches(star, s, Head(rs).pos, Head(rs).caps) ELSE <<>>)
         \o matches_more(star, s, pos, Tail(rs))

matches(node, s, pos, caps) ==
    CASE node.t = "Lit" ->
            IF pos <= Len(s) /\ s[pos] = node.c THEN <<At(pos + 1, caps)>> ELSE <<>>
      [] node.t = "Dot" ->
            IF pos <= Len(s) /\ s[pos] # "\n" THEN <<At(pos + 1, caps)>> ELSE <<>>
      [] node.t = "Space" ->
            IF pos <= Len(s) /\ is_whitespace(s[pos]) THEN <<At(pos + 1, caps)>> ELSE <<>>
      [] node.t = "Bol" -> IF pos = 1 THEN <<At(pos, caps)>> ELSE <<>>
      [] node.t = "Eol" -> IF pos = Len(s) + 1 THEN <<At(pos, caps)>> ELSE <<>>
      [] node.t = "Cat" -> matches_cat(node.xs, s, <<At(pos, caps)>>)
      [] node.t = "Alt" -> matches_alt(node.xs, s, pos, caps)
      [] node.t = "Grp" ->
            LET record(rs) ==
                    [i \in 1..Len(rs) |->
                        IF node.name = <<>> THEN rs[i]
                        ELSE At(rs[i].pos, (node.name :> <<pos, rs[i].pos>>) @@ rs[i].caps)]
            IN record(matches(node.x, s, pos, caps))
      [] node.t = "Opt" -> matches(node.x, s, pos, caps) \o <<At(pos, caps)>>
      [] node.t = "Star" ->
            matches_more(node, s, pos, matches(node.x, s, pos, caps)) \o <<At(pos, caps)>>

NoCaps == [n \in {} |-> <<0, 0>>]

RECURSIVE captures_from(_, _, _)
captures_from(re, s, start) ==
    IF start > Len(s) + 1 THEN None
    ELSE LET leftmost(rs) ==
                 IF rs # <<>> THEN Some(Head(rs).caps) ELSE captures_from(re, s, start + 1)
         IN leftmost(matches(re, s, start, NoCaps))

\* re.captures(input)
captures(re, input) == captures_from(re, input, 1)

(***************************************************************************)
(* TemplateMatcher::try_match (matcher.rs 31-45).  A Match is its          *)
(* variable_bindings: a function from the names of the groups that took    *)
(* part in the match to the trimmed text they matched.                     *)
(***************************************************************************)
\* named values that keep the captured text as it is
named_values_untrimmed(caps, input) ==
    [n \in DOMAIN caps |-> SubSeq(input, caps[n][1], caps[n][2] - 1)]

\* matcher.rs 35-39
named_values(caps, input) ==
    [n \in DOMAIN caps |-> trim(SubSeq(input, caps[n][1], caps[n][2] - 1))]

\* a try_match that takes a regex the engine rejects for one that does not match
try_match_unchecked(defs, input, template) ==
    LET bound(c) == IF c = None THEN Ok(None) ELSE Ok(Some(named_values(c[2], input)))
        searched(re) == IF re.tag # "Ok" THEN Ok(None) ELSE bound(captures(re.val, input))
        compiled(regex_str) ==
            IF regex_str.tag # "Ok" THEN regex_str ELSE searched(Regex_new(regex_str.val))
    IN compiled(convert_template_to_regex(defs, template))

try_match(defs, input, template) ==
    LET bound(c) == IF c = None THEN Ok(None) ELSE Ok(Some(named_values(c[2], input)))
        searched(re) == IF re.tag # "Ok" THEN re ELSE bound(captures(re.val, input))
        compiled(regex_str) ==
            IF regex_str.tag # "Ok" THEN regex_str ELSE searched(Regex_new(regex_str.val))
    IN compiled(convert_template_to_regex(defs, template))

\* Match::get_binding
get_binding(match_inst, name) ==
    IF name \in DOMAIN match_inst THEN Some(match_inst[name]) ELSE None

(***************************************************************************)
(* TemplateParser::parse_template (parser.rs 22-39, 74-90).  The grammar   *)
(* that pest applies is the one the specification gives:                   *)
(*   template := clause ('|' clause)*     clause := symbol (ws+ symbol)*   *)
(*   symbol := atom '?'?                  atom := text | varBind | subCall *)
(*   text := alphanumeric+                        | group                  *)
(*   varBind := '[' identifier ']'        subCall := '{' name '}'          *)
(*   group := '(' template ')'                                             *)
(***************************************************************************)
FailTemplate(source) == <<"FailTemplate", source>>

\* str::starts_with
starts_with(s, prefix) ==
    Len(s) >= Len(prefix) /\ SubSeq(s, 1, Len(prefix)) = prefix

\* str::ends_with
ends_with(s, suffix) ==
    Len(s) >= Len(suffix) /\ SubSeq(s, Len(s) - Len(suffix) + 1, Len(s)) = suffix

RECURSIVE run_end(_, _, _)
\* the first position from i on whose character is not in the set chars
run_end(s, i, chars) ==
    IF i <= Len(s) /\ s[i] \in chars THEN run_end(s, i + 1, chars) ELSE i

TextChars == {"a", "b", "c", "p", "q", "r", "s", "t", "u", "x", "y", "A", "B", "X", "1"}
SpaceChars == {" ", "\t"}

\* parser.rs 74-90: the Symbol of the text pair_str whose atom is internal
parse_symbol(pair_str, internal) == Symbol(internal, ends_with(pair_str, <<"?">>))

RECURSIVE dsl_template(_, _)
RECURSIVE dsl_clauses(_, _, _)
RECURSIVE dsl_clause(_, _, _)

\* atom: the SymbolInternal that begins at i
dsl_atom(s, i) ==
    LET closed(e, close, internal) ==
            IF e > i + 1 /\ e <= Len(s) /\ s[e] = close
            THEN Parsed(internal, e + 1) ELSE Bad
        group(t) ==
            IF t.ok /\ t.i <= Len(s) /\ s[t.i] = ")"
            THEN Parsed(Nested(t.node), t.i + 1) ELSE Bad
        text(e) == Parsed(Text(SubSeq(s, i, e - 1)), e)
        bind(e) == closed(e, "]", VarBind(SubSeq(s, i + 1, e - 1)))
        call(e) == closed(e, "}", SubtemplateCall(SubSeq(s, i + 1, e - 1)))
    IN IF i > Len(s) THEN Bad
       ELSE CASE s[i] = "[" -> bind(run_end(s, i + 1, TextChars))
              [] s[i] = "{" -> call(run_end(s, i + 1, TextChars \cup {" "}))
              [] s[i] = "(" -> group(dsl_template(s, i + 1))
              [] s[i] \in TextChars -> text(run_end(s, i, TextChars))
              [] OTHER -> Bad

\* symbol: an atom and the `?` that may follow it
dsl_symbol(s, i) ==
    LET symbol(a) ==
            IF ~a.ok THEN Bad
            ELSE LET e == IF a.i <= Len(s) /\ s[a.i] = "?" THEN a.i + 1 ELSE a.i
                 IN Parsed(parse_symbol(SubSeq(s, i, e - 1), a.node), e)
    IN symbol(dsl_atom(s, i))

\* clause: symbols separated by whitespace; parse_clause makes the Clause
dsl_clause(s, i, acc) ==
    LET more(sym) ==
            IF ~sym.ok THEN Bad
            ELSE LET next == run_end(s, sym.i, SpaceChars)
                 IN IF next > sym.i /\ next <= Len(s) /\ s[next] \notin {"|", ")"}
                    THEN dsl_clause(s, next, Append(acc, sym.node))
                    ELSE Parsed(parse_clause_split(Append(acc, sym.node)), sym.i)
    IN more(dsl_symbol(s, i))

dsl_clauses(s, i, acc) ==
    LET more(c) ==
            IF ~c.ok THEN Bad
            ELSE IF c.i <= Len(s) /\ s[c.i] = "|"
            THEN dsl_clauses(s, c.i + 1, Append(acc, c.node))
            ELSE Parsed(Template(Append(acc, c.node)), c.i)
    IN more(dsl_clause(s, i, <<>>))

\* template: clauses separated by `|` (parser.rs 30-39)
dsl_template(s, i) == dsl_clauses(s, i, <<>>)

\* parser.rs 22-28
parse_template(source) ==
    LET top(t) ==
            IF t.ok /\ t.i = Len(source) + 1 THEN Ok(t.node) ELSE Err(FailTemplate(source))
    IN top(dsl_template(source, 1))

(***************************************************************************)
(* TemplateHandler (handler.rs).  An RFunction is known to the dispatcher  *)
(* by its parameters: params[i] = [name, typ], typ the text of the         *)
(* parameter's type.  A TemplateEntry is [template, function].             *)
(***************************************************************************)
RFunction(name, params) == [name |-> name, params |-> params]
Param(name, typ) == [name |-> name, typ |-> typ]
TemplateEntry(template, function) == [template |-> template, function |-> function]

num_params(func) == Len(func.params)
get_param(func, i) == func.params[i].name

\* the MatchResult of entry i: function is a reference to the function of
\* that entry, so the entry is part of its identity
MatchResult(i, function, match_inst) ==
    [entry |-> i, function |-> function, match_inst |-> match_inst]

\* a loop body that takes a failed try_match for a template that did not match
find_step_skip_errors(i, entry, result) ==
    IF result.tag = "Ok" /\ result.val # None
    THEN [op |-> "return", val |-> Ok(Some(MatchResult(i, entry.function, result.val[2])))]
    ELSE [op |-> "next", val |-> result]

\* handler.rs 34-41: what the loop body makes of the result of try_match on
\* entry i: "return" with a value, or "next" to go on with entry i + 1
find_step(i, entry, result) ==
    IF result.tag # "Ok" THEN [op |-> "return", val |-> result]
    ELSE IF result.val # None
    THEN [op |-> "return", val |-> Ok(Some(MatchResult(i, entry.function, result.val[2])))]
    ELSE [op |-> "next", val |-> result]

\* a find_function that keeps looking after a match and returns the last one
find_function_last(defs, entries, input) ==
    LET M == {i \in 1..Len(entries) :
                LET r == try_match(defs, input, entries[i].template)
                IN r.tag = "Ok" /\ r.val # None}
        last == CHOOSE i \in M : \A j \in M : j <= i
    IN IF M = {} THEN Ok(None)
       ELSE Ok(Some(MatchResult(last, entries[last].function,
                                try_match(defs, input, entries[last].template).val[2])))

\* a find_function that compiles every entry before it looks for a match
find_function_from_eager(defs, entries, input, i) ==
    LET tried == [k \in 1..Len(entries) |-> try_match(defs, input, entries[k].template)]
        bad == {k \in i..Len(entries) : tried[k].tag # "Ok"}
        good == {k \in i..Len(entries) : tried[k].tag = "Ok" /\ tried[k].val # None}
        first(S) == CHOOSE k \in S : \A j \in S : k <= j
    IN IF bad # {} THEN tried[first(bad)]
       ELSE IF good # {}
       THEN Ok(Some(MatchResult(first(good), entries[first(good)].function,
                                tried[first(good)].val[2])))
       ELSE Ok(None)

RECURSIVE find_function_from(_, _, _, _)
\* handler.rs 32-42: the loop over self.templates from entry i on
find_function_from(defs, entries, input, i) ==
    IF i > Len(entries) THEN Ok(None)
    ELSE LET go(step) ==
                 IF step.op = "return" THEN step.val
                 ELSE find_function_from(defs, entries, input, i + 1)
         IN go(find_step(i, entries[i], try_match(defs, input, entries[i].template)))

find_function(defs, entries, input) == find_function_from(defs, entries, input, 1)

RECURSIVE AttemptsUpTo(_, _, _, _)
\* observer: the results of try_match on the first n entries, each taken by
\* itself
AttemptsUpTo(defs, entries, input, n) ==
    IF n = 0 THEN <<>>
    ELSE Append(AttemptsUpTo(defs, entries, input, n - 1),
                try_match(defs, input, entries[n].template))

(***************************************************************************)
(* TemplateHandler::load_from_file (handler.rs 49-115).  A file is the     *)
(* sequence of its lines, as BufRead::lines yields them.  The loader is    *)
(* [lines, templates, defs, fallback, submitted]: the lines the iterator   *)
(* has yet to yield, the handler's fields, and the sources that were given *)
(* to CortexParser::parse_function so far.                                 *)
(***************************************************************************)
IllegalLine(line) == <<"IllegalLine", line>>
UnexpectedEof(stage) == <<"UnexpectedEof", stage>>
CortexParseError(source) == <<"ParseError", source>>

DirTemp == <<"%", " ", "t", "e", "m", "p">>
DirSub == <<"%", " ", "s", "u", "b">>
DirFallback == <<"%", " ", "f", "a", "l", "l", "b", "a", "c", "k">>
DirEnd == <<"%", " ", "e", "n", "d">>

RECURSIVE collect_lines_to_eof(_, _, _)
\* a collection that takes the end of the file for the `% end` line
collect_lines_to_eof(iter, collected, line) ==
    IF starts_with(line, DirEnd) THEN [ok |-> TRUE, collected |-> collected, iter |-> iter]
    ELSE IF iter = <<>> THEN [ok |-> TRUE, collected |-> Append(collected, line), iter |-> iter]
    ELSE collect_lines_to_eof(Tail(iter), Append(collected, line), Head(iter))

RECURSIVE collect_lines(_, _, _)
\* handler.rs 71-74, 89-92, 100-103: `while !line.starts_with("% end")`
\* pushes line and reads the next one; line is the empty string at first
collect_lines(iter, collected, line) ==
    IF starts_with(line, DirEnd) THEN [ok |-> TRUE, collected |-> collected, iter |-> iter]
    ELSE IF iter = <<>> THEN [ok |-> FALSE, collected |-> collected, iter |-> iter]
    ELSE collect_lines(Tail(iter), Append(collected, line), Head(iter))

\* a function string that also drops the first line read from the file
function_string_skip_body_line(function_lines) ==
    join(Tail(Tail(function_lines)), <<"\n">>)

\* handler.rs 75, 104: function_lines.into_iter().skip(1) joined with "\n"
function_string(function_lines) == join(Tail(function_lines), <<"\n">>)

\* handler.rs 93: subtemplate_lines.join("")
subtemplate_str(subtemplate_lines) == Flatten(subtemplate_lines)

\* the handler sources that the interpreter's parser accepts, and the
\* function each one declares
SrcPlay == <<"f", "n", " ", "p", "(", "x", ")", "{", "\n", "}">>
SrcStop == <<"f", "n", " ", "s", "(", ")", "{", "}">>
SrcFallback == <<"f", "n", " ", "f", "(", "t", ")", "{", "\n", "}">>
SrcOther == <<"f", "n", " ", "o", "(", "t", ")", "{", "\n", "\n", "}">>
KnownSources == {SrcPlay, SrcStop, SrcFallback, SrcOther}

\* handler.rs 77-78, 105-106: CortexParser::parse_function and
\* interpreter.preprocess_function
parse_function(source) ==
    CASE source = SrcPlay -> Ok(RFunction("play", <<Param(<<"x">>, "string")>>))
      [] source = SrcStop -> Ok(RFunction("stop", <<>>))
      [] source = SrcFallback -> Ok(RFunction("fallback", <<Param(<<"t">>, "string")>>))
      [] source = SrcOther -> Ok(RFunction("other", <<Param(<<"t">>, "string")>>))
      [] OTHER -> Err(CortexParseError(source))

Loader(ls, entries, defs, fb, sources) ==
    [lines |-> ls, templates |-> entries, defs |-> defs, fallback |-> fb,
     submitted |-> sources]

\* the outcome of one step of the loader: its state and the Result
Loaded(st, res) == [state |-> st, result |-> res]

\* matcher.rs 27-29
add_subtemplate(defs, name, template) ==
    [n \in DOMAIN defs \cup {name} |-> IF n = name THEN template ELSE defs[n]]

\* a store that puts the new entry before the others
store_entry_front(st, iter, template, function) ==
    Loaded(Loader(iter, <<TemplateEntry(template, function)>> \o st.templates, st.defs,
                  st.fallback, st.submitted),
           Ok(<<>>))

\* a store that looks the calls of the template up when the entry is loaded
store_entry_resolved(st, iter, template, function) ==
    IF \E c \in 1..Len(template.clauses) : \E k \in 1..Len(template.clauses[c].symbols) :
          /\ template.clauses[c].symbols[k].symbol.kind = "SubtemplateCall"
          /\ template.clauses[c].symbols[k].symbol.v \notin DOMAIN st.defs
    THEN Loaded(Loader(iter, st.templates, st.defs, st.fallback, st.submitted),
                Err(<<"SubtemplateNotFound">>))
    ELSE Loaded(Loader(iter, Append(st.templates, TemplateEntry(template, function)),
                       st.defs, st.fallback, st.submitted),
                Ok(<<>>))

\* handler.rs 79-84: self.templates.push(entry)
store_entry(st, iter, template, function) ==
    Loaded(Loader(iter, Append(st.templates, TemplateEntry(template, function)), st.defs,
                  st.fallback, st.submitted),
           Ok(<<>>))

\* the loader when a step ends without a new entry, subtemplate or fallback
outcome(st, iter, sources, res) ==
    Loaded(Loader(iter, st.templates, st.defs, st.fallback, sources), res)

\* handler.rs 66-84: a `% temp` section, iter being the lines after the
\* directive
load_temp(st, iter) ==
    LET parsed(c, template, source) ==
            LET function(f) ==
                    IF f.tag # "Ok" THEN outcome(st, c.iter, Append(st.submitted, source), f)
                    ELSE store_entry([st EXCEPT !.submitted = Append(@, source)], c.iter,
                                     template.val, f.val)
            IN IF template.tag # "Ok" THEN outcome(st, c.iter, st.submitted, template)
               ELSE function(parse_function(source))
        body(c) ==
            IF ~c.ok
            THEN outcome(st, c.iter, st.submitted, Err(UnexpectedEof("reading template function")))
            ELSE parsed(c, parse_template(Head(iter)), function_string(c.collected))
    IN IF iter = <<>>
       THEN outcome(st, iter, st.submitted, Err(UnexpectedEof("reading template header")))
       ELSE body(collect_lines(Tail(iter), <<>>, <<>>))

\* handler.rs 85-96: a `% sub` section
load_sub(st, iter) ==
    LET parsed(c, template) ==
            IF template.tag # "Ok" THEN outcome(st, c.iter, st.submitted, template)
            ELSE Loaded(Loader(c.iter, st.templates,
                               add_subtemplate(st.defs, Head(iter), template.val),
                               st.fallback, st.submitted),
                        Ok(<<>>))
        body(c) ==
            IF ~c.ok
            THEN outcome(st, c.iter, st.submitted, Err(UnexpectedEof("reading subtemplate body")))
            ELSE parsed(c, parse_template(subtemplate_str(c.collected)))
    IN IF iter = <<>>
       THEN outcome(st, iter, st.submitted, Err(UnexpectedEof("reading subtemplate header")))
       ELSE body(collect_lines(Tail(iter), <<>>, <<>>))

\* handler.rs 97-108: a `% fallback` section
load_fallback(st, iter) ==
    LET parsed(c, source) ==
            LET function(f) ==
                    IF f.tag # "Ok" THEN outcome(st, c.iter, Append(st.submitted, source), f)
                    ELSE Loaded(Loader(c.iter, st.templates, st.defs, Some(f.val),
                                       Append(st.submitted, source)),
                                Ok(<<>>))
            IN function(parse_function(source))
        body(c) ==
            IF ~c.ok
            THEN outcome(st, c.iter, st.submitted, Err(UnexpectedEof("reading fallback function")))
            ELSE parsed(c, function_string(c.collected))
    IN body(collect_lines(iter, <<>>, <<>>))

\* a loader that accepts a directive after leading whitespace
load_next_thing_indented(st) ==
    LET line == trim_start(Head(st.lines))
        iter == Tail(st.lines)
    IN IF trim(line) = <<>> THEN outcome(st, iter, st.submitted, Ok(<<>>))
       ELSE IF starts_with(line, DirTemp) THEN load_temp(st, iter)
       ELSE IF starts_with(line, DirSub) THEN load_sub(st, iter)
       ELSE IF starts_with(line, DirFallback) THEN load_fallback(st, iter)
       ELSE outcome(st, iter, st.submitted, Err(IllegalLine(line)))

\* handler.rs 59-115, called with a line to read (handler.rs 53)
load_next_thing(st) ==
    LET line == Head(st.lines)
        iter == Tail(st.lines)
    IN IF trim(line) = <<>> THEN outcome(st, iter, st.submitted, Ok(<<>>))
       ELSE IF starts_with(line, DirTemp) THEN load_temp(st, iter)
       ELSE IF starts_with(line, DirSub) THEN load_sub(st, iter)
       ELSE IF starts_with(line, DirFallback) THEN load_fallback(st, iter)
       ELSE outcome(st, iter, st.submitted, Err(IllegalLine(line)))

RECURSIVE load_from(_)
\* handler.rs 53-56: the loop of load_from_file from the loader st on
load_from(st) ==
    IF st.lines = <<>> THEN Loaded(st, Ok(<<>>))
    ELSE LET next(l) == IF l.result.tag # "Ok" THEN l ELSE load_from(l.state)
         IN next(load_next_thing(st))

\* handler.rs 49-57 on a new TemplateHandler (handler.rs 23-29)
load_from_file(file) ==
    load_from(Loader(file, <<>>, [n \in {} |-> <<>>], None, <<>>))

(***************************************************************************)
(* CommandRunner::run (runner.rs 154-181).                                 *)
(***************************************************************************)
CortexString(s) == <<"String", s>>
CortexNone == <<"None">>

\* a sanitize that lower-cases and drops nothing
sanitize_no_filter(input) == to_lowercase(input)

\* a sanitize that does not lower-case
sanitize_keep_case(input) ==
    SelectSeq(input, LAMBDA c : is_alphanumeric(c) \/ is_whitespace(c))

\* runner.rs 155-158
sanitize(input) ==
    SelectSeq(to_lowercase(input), LAMBDA c : is_alphanumeric(c) \/ is_whitespace(c))

\* a param_value that passes an empty string for a missing binding
param_value_empty(func, inst, i) ==
    LET binding == get_binding(inst, get_param(func, i))
    IN IF binding # None THEN CortexString(binding[2]) ELSE CortexString(<<>>)

\* runner.rs 165-171: the value pushed for parameter i
param_value(func, inst, i) ==
    LET binding == get_binding(inst, get_param(func, i))
    IN IF binding # None THEN CortexString(binding[2]) ELSE CortexNone

\* runner.rs 163-172
param_values(func, inst) == [i \in 1..num_params(func) |-> param_value(func, inst, i)]

\* one call of interpreter.call_function
Call(kind, entry, func, args) ==
    [kind |-> kind, entry |-> entry, function |-> func, args |-> args]

\* a fallback that is given the sanitized input
fallback_calls_sanitized(fb, input) ==
    IF fb # None THEN <<Call("fallback", 0, fb[2], <<CortexString(sanitize(input))>>)>> ELSE <<>>

\* runner.rs 175-178: the calls made when no entry matched
fallback_calls(fb, input) ==
    IF fb # None THEN <<Call("fallback", 0, fb[2], <<CortexString(input)>>)>> ELSE <<>>

\* a run without the else: the fallback is called after the handler too
run_calls_fall_through(found, fb, input) ==
    IF found.tag # "Ok" THEN <<>>
    ELSE IF found.val # None
    THEN LET m == found.val[2]
         IN <<Call("handler", m.entry, m.function, param_values(m.function, m.match_inst))>>
            \o (IF fb # None THEN <<Call("fallback", 0, fb[2], <<CortexString(input)>>)>> ELSE <<>>)
    ELSE IF fb # None THEN <<Call("fallback", 0, fb[2], <<CortexString(input)>>)>> ELSE <<>>

\* runner.rs 159-179: the calls of interpreter.call_function that run makes,
\* given the result of find_function
run_calls(found, fb, input) ==
    IF found.tag # "Ok" THEN <<>>
    ELSE IF found.val # None
    THEN LET m == found.val[2]
         IN <<Call("handler", m.entry, m.function, param_values(m.function, m.match_inst))>>
    ELSE fallback_calls(fb, input)

(***************************************************************************)
(* The bundles and inputs of the model.  Templates are written as the      *)
(* parser builds them: one Text symbol per word.                           *)
(***************************************************************************)
SeqsUpTo(S, n) == UNION {[1..k -> S] : k \in 0..n}

InputChars == {"a", " ", "A", "!"}
Inputs == SeqsUpTo(InputChars, MaxInputLen)

Word(w) == Symbol(Text(w), FALSE)
OptWord(w) == Symbol(Text(w), TRUE)
Bind(n) == Symbol(VarBind(n), FALSE)
OptBind(n) == Symbol(VarBind(n), TRUE)
CallSub(n) == Symbol(SubtemplateCall(n), FALSE)
OptCallSub(n) == Symbol(SubtemplateCall(n), TRUE)
Group(t) == Symbol(Nested(t), FALSE)
OptGroup(t) == Symbol(Nested(t), TRUE)
One(symbols) == Template(<<Clause(symbols)>>)
Either(c1, c2) == Template(<<Clause(c1), Clause(c2)>>)

\* the subtemplates of the model: p = `(a|b) a?`, s = `b {q}`, t = `a [x]?`,
\* u = `{t}`, and r = `{r}`, which calls itself; q is defined in QTable only
FullTable ==
    (<<"p">> :> One(<<Group(Either(<<Word(<<"a">>)>>, <<Word(<<"b">>)>>)), OptWord(<<"a">>)>>))
    @@ (<<"s">> :> One(<<Word(<<"b">>), CallSub(<<"q">>)>>))
    @@ (<<"t">> :> One(<<Word(<<"a">>), OptBind(<<"x">>)>>))
    @@ (<<"u">> :> One(<<CallSub(<<"t">>)>>))
    @@ (<<"r">> :> One(<<CallSub(<<"r">>)>>))
QTable == FullTable @@ (<<"q">> :> One(<<Word(<<"b">>)>>))
EmptyTable == [n \in {} |-> One(<<>>)]
Tables == {EmptyTable, FullTable, QTable}

fn_play == RFunction("play", <<Param(<<"x">>, "string")>>)
fn_ask == RFunction("ask", <<Param(<<"y">>, "string?"), Param(<<"x">>, "string")>>)
fn_stop == RFunction("stop", <<>>)
fn_vol == RFunction("vol", <<Param(<<"x">>, "number")>>)
fn_fallback == RFunction("fallback", <<Param(<<"t">>, "string")>>)

\* the `% temp` sections of the model: template and handler
EntryPool == {
    \* a [x]
    TemplateEntry(One(<<Word(<<"a">>), Bind(<<"x">>)>>), fn_vol),
    \* [x]
    TemplateEntry(One(<<Bind(<<"x">>)>>), fn_ask),
    \* (a|{s})
    TemplateEntry(One(<<Group(Either(<<Word(<<"a">>)>>, <<CallSub(<<"s">>)>>))>>), fn_stop),
    \* {p}? [y]
    TemplateEntry(One(<<OptCallSub(<<"p">>), Bind(<<"y">>)>>), fn_play),
    \* [x] [x]
    TemplateEntry(One(<<Bind(<<"x">>), Bind(<<"x">>)>>), fn_stop),
    \* {r}
    TemplateEntry(One(<<CallSub(<<"r">>)>>), fn_stop),
    \* A
    TemplateEntry(One(<<Word(<<"A">>)>>), fn_stop) }

(***************************************************************************)
(* State.                                                                  *)
(***************************************************************************)
VARIABLES
    subtemplate_definitions, \* TemplateMatcher.subtemplate_definitions
    templates,               \* TemplateHandler.templates
    fallback,                \* TemplateHandler.fallback
    pc,                      \* where main's input loop is
    input,                   \* the line read by read_line
    found,                   \* run: the result of find_function
    calls,                   \* run: the calls of interpreter.call_function made
    result,                  \* run: the returned Result
    attempts,                \* observer: try_match of each entry on run's sanitized input
    template,                \* try_match: the template argument
    regex_str,               \* try_match: the result of convert_template_to_regex
    matched,                 \* try_match: the returned Result
    symbols,                 \* parse_clause: the symbols as parse_symbol returned them
    true_symbols,            \* parse_clause: the symbols of the Clause it returns
    sections,                \* the sections the bundle file is written from
    lines,                   \* load_from_file: the lines the iterator has yet to yield
    submitted,               \* the handler sources given to CortexParser::parse_function
    load_result,             \* load_from_file: the returned Result
    f8_down,                 \* CommandRunner.f8_down
    sp_button_pressed,       \* CommandRunner.sp_button_pressed
    utils,                   \* Recorder.utils.is_some()
    key_log,                 \* observer: what the key handlers did so far
    writer,                  \* the Option<WavWriter> inside the Mutex of the recording
    lock,                    \* the thread that holds the Mutex of the writer
    stream,                  \* the cpal input stream of the recording
    main_pc,                 \* where the thread that calls the Recorder is
    callback_pc,             \* where the stream's callback thread is
    rec_log                  \* observer: what the callback did so far

bundle == <<subtemplate_definitions, templates, fallback>>
runv == <<pc, input, found, calls, result, attempts>>
matchv == <<template, regex_str, matched>>
parsev == <<symbols, true_symbols>>
loadv == <<sections, lines, submitted, load_result>>
keyv == <<f8_down, sp_button_pressed, key_log>>
recv == <<writer, lock, stream, main_pc, callback_pc, rec_log>>
voicev == <<f8_down, sp_button_pressed, utils, key_log, writer, lock, stream, main_pc,
            callback_pc, rec_log>>
vars == <<subtemplate_definitions, templates, fallback, pc, input, found, calls, result,
          attempts, template, regex_str, matched, symbols, true_symbols, sections, lines,
          submitted, load_result, f8_down, sp_button_pressed, utils, key_log, writer, lock,
          stream, main_pc, callback_pc, rec_log>>

NotRun == [tag |-> "NotRun", val |-> <<>>]

\* runner.rs 40-60 and record.rs 32-34: CommandRunner::new and Recorder::new;
\* nothing is recording, no key is down, no event was handled
NoKeyLog == [events |-> 0, clashes |-> 0, stopped |-> 0, dispatches |-> 0, printed |-> 0]
NoRecLog == [calls |-> 0, callbacks |-> 0, written |-> 0, late |-> 0, dropped |-> 0,
             last |-> "none"]
VoiceIdle ==
    /\ f8_down = FALSE
    /\ sp_button_pressed = FALSE
    /\ utils = FALSE
    /\ key_log = NoKeyLog
    /\ writer = "none"
    /\ lock = "free"
    /\ stream = "none"
    /\ main_pc = "idle"
    /\ callback_pc = "idle"
    /\ rec_log = NoRecLog

(***************************************************************************)
(* Spec: the console loop of main (main.rs 34-38) over a loaded bundle.    *)
(***************************************************************************)
Init ==
    /\ subtemplate_definitions = FullTable
    /\ templates \in SeqsUpTo(EntryPool, MaxEntries)
    /\ fallback \in {None, Some(fn_fallback)}
    /\ pc = "read_line"
    /\ input = <<>>
    /\ found = NotRun
    /\ calls = <<>>
    /\ result = NotRun
    /\ attempts = <<>>
    /\ template = One(<<>>)
    /\ regex_str = NotRun
    /\ matched = NotRun
    /\ symbols = <<>>
    /\ true_symbols = NotRun
    /\ sections = <<>>
    /\ lines = <<>>
    /\ submitted = <<>>
    /\ load_result = NotRun
    /\ VoiceIdle

\* main.rs 36: let line = read_line()
read_line(line) ==
    /\ pc = "read_line"
    /\ input' = line
    /\ pc' = "run"
    /\ UNCHANGED <<bundle, found, calls, result, attempts, matchv, parsev, loadv, voicev>>

\* the Result of run, given the result of find_function, the calls made and
\* the Result of the call of call_function (runner.rs 159, 173, 177, 180)
run_result(f, cs, call_result) ==
    IF f.tag # "Ok" THEN f
    ELSE IF cs # <<>> /\ call_result.tag # "Ok" THEN call_result
    ELSE Ok(<<>>)

CallResults == {Ok(<<>>), Err(<<"InterpreterError">>)}

\* a run that takes the selected entry out of the entry list
run_consuming ==
    /\ pc = "run"
    /\ found' = find_function(subtemplate_definitions, templates, sanitize(input))
    /\ calls' = run_calls(found', fallback, input)
    /\ \E call_result \in CallResults : result' = run_result(found', calls', call_result)
    /\ pc' = IF found'.tag = "Overflow" THEN "aborted" ELSE "returned"
    /\ attempts' = AttemptsUpTo(subtemplate_definitions, templates, sanitize(input),
                                Len(templates))
    /\ templates' = IF found'.tag = "Ok" /\ found'.val # None
                    THEN SelectSeq(templates,
                                   LAMBDA e : e # templates[found'.val[2].entry])
                    ELSE templates
    /\ UNCHANGED <<subtemplate_definitions, fallback, input, matchv, parsev, loadv, voicev>>

\* main.rs 37: runner.run(&line); call_result is the Result of the
\* interpreter's call_function, should run call it
run ==
    /\ pc = "run"
    /\ found' = find_function(subtemplate_definitions, templates, sanitize(input))
    /\ calls' = run_calls(found', fallback, input)
    /\ \E call_result \in CallResults : result' = run_result(found', calls', call_result)
    /\ pc' = IF found'.tag = "Overflow" THEN "aborted" ELSE "returned"
    /\ attempts' = AttemptsUpTo(subtemplate_definitions, templates, sanitize(input),
                                Len(templates))
    /\ UNCHANGED <<bundle, input, matchv, parsev, loadv, voicev>>

\* main.rs 34-38: run returned Ok, the loop goes round
main_continue ==
    /\ pc = "returned"
    /\ result.tag = "Ok"
    /\ pc' = "read_line"
    /\ input' = <<>>
    /\ found' = NotRun
    /\ calls' = <<>>
    /\ result' = NotRun
    /\ attempts' = <<>>
    /\ UNCHANGED <<bundle, matchv, parsev, loadv, voicev>>

\* main.rs 37: the `?` returns run's error from main
main_exit ==
    /\ pc = "returned"
    /\ result.tag = "Err"
    /\ pc' = "exited"
    /\ UNCHANGED <<bundle, input, found, calls, result, attempts, matchv, parsev, loadv, voicev>>

Next ==
    \/ \E line \in Inputs : read_line(line)
    \/ run
    \/ main_continue
    \/ main_exit

Spec == Init /\ [][Next]_vars

(***************************************************************************)
(* Properties of the dispatcher, stated over the state in which run has    *)
(* returned.  Attempt(i) is what try_match makes of the sanitized input    *)
(* and the template of entry i, whether or not run got as far as entry i;  *)
(* Attempts is the sequence of them, as the observer recorded it.          *)
(***************************************************************************)
Returned == pc = "returned"
Attempt(i) == attempts[i]
Attempts == attempts

Matching(A) == {i \in 1..Len(A) : A[i].tag = "Ok" /\ A[i].val # None}
Failing(A) == {i \in 1..Len(A) : A[i].tag # "Ok"}
NoneMatched(A) == \A i \in 1..Len(A) : A[i] = Ok(None)
Lowest(S) == CHOOSE i \in S : \A j \in S : i <= j
\* find_function comes to a matching entry: none before it fails synthesis
Selected(A) == Matching(A) # {} /\ \A k \in Failing(A) : k > Lowest(Matching(A))
HandlerCalls == {k \in 1..Len(calls) : calls[k].kind = "handler"}
FallbackCalls == {k \in 1..Len(calls) : calls[k].kind = "fallback"}

\* C1: first match.  When entries i < j both match the sanitized input, the
\* handler of entry j is not invoked, and, find_function having come to a
\* match, run makes exactly one call: the handler of the lowest-index
\* matching entry, which is also the entry find_function returns.
C1_FirstMatch ==
    Returned =>
        LET A == Attempts
            M == Matching(A)
        IN \A i, j \in M :
            i < j =>
                /\ \A k \in 1..Len(calls) : calls[k].entry # j
                /\ Selected(A) =>
                     /\ Len(calls) = 1
                     /\ calls[1].kind = "handler"
                     /\ calls[1].entry = Lowest(M)
                     /\ calls[1].function = templates[Lowest(M)].function
                     /\ found.tag = "Ok" /\ found.val # None
                     /\ found.val[2].entry = Lowest(M)

\* C1 witness: two different entries match and the first one's handler was
\* called
C1_Witness ==
    /\ Returned
    /\ Len(templates) = 2 /\ templates[1] # templates[2]
    /\ Matching(Attempts) = {1, 2}
    /\ Len(calls) = 1 /\ calls[1].kind = "handler" /\ calls[1].entry = 1

\* C2: no entry matches and a fallback exists: run calls the fallback, once,
\* with one argument, the string of the input as it was read (not sanitized).
C2_FallbackOriginalInput ==
    (Returned /\ fallback # None /\ NoneMatched(Attempts)) =>
        /\ Len(calls) = 1
        /\ calls[1].kind = "fallback"
        /\ calls[1].function = fallback[2]
        /\ calls[1].args = <<CortexString(input)>>

\* C2 witness: the fallback was called on an input that sanitizing changes
C2_Witness ==
    /\ Returned /\ fallback # None /\ templates # <<>>
    /\ FallbackCalls # {}
    /\ sanitize(input) # input
    /\ NoneMatched(Attempts)

\* the parameters of the function that find_function returned
FoundMatch == found.tag = "Ok" /\ found.val # None
FoundFunction == found.val[2].function
FoundInst == found.val[2].match_inst
Unbound(i) == get_param(FoundFunction, i) \notin DOMAIN FoundInst

\* C3: an entry matched and one of its plain string parameters has no
\* binding: run fails with BindingNotFound(that parameter) and calls nothing.
C3_BindingNotFound ==
    (Returned /\ FoundMatch) =>
        \A i \in 1..num_params(FoundFunction) :
            (FoundFunction.params[i].typ = "string" /\ Unbound(i)) =>
                /\ calls = <<>>
                /\ result = Err(BindingNotFound(get_param(FoundFunction, i)))

\* C4: an entry matched and one of its parameters is neither string nor
\* string?: run fails with InvalidParameterType(that type) and calls nothing.
C4_InvalidParameterType ==
    (Returned /\ FoundMatch) =>
        \A i \in 1..num_params(FoundFunction) :
            FoundFunction.params[i].typ \notin {"string", "string?"} =>
                /\ calls = <<>>
                /\ result = Err(InvalidParameterType(FoundFunction.params[i].typ))

\* C5: the arguments of a handler call are one per parameter, in parameter
\* order: the string bound to the parameter's name if the match binds it,
\* the null value if it does not and the parameter is an optional string;
\* so every string passed is the binding of the parameter in its place.
C5_Arguments ==
    Returned =>
        \A k \in HandlerCalls :
            LET f == calls[k].function
                inst == Attempt(calls[k].entry).val[2]
                args == calls[k].args
            IN /\ Len(args) = num_params(f)
               /\ \A i \in 1..num_params(f) :
                    /\ get_param(f, i) \in DOMAIN inst =>
                         args[i] = CortexString(inst[get_param(f, i)])
                    /\ (get_param(f, i) \notin DOMAIN inst /\ f.params[i].typ = "string?") =>
                         args[i] = CortexNone
                    /\ args[i] # CortexNone =>
                         /\ get_param(f, i) \in DOMAIN inst
                         /\ args[i] = CortexString(inst[get_param(f, i)])

\* C5 witness: a handler was called with a null and a captured string
C5_Witness ==
    /\ Returned
    /\ \E k \in HandlerCalls :
          /\ Len(calls[k].args) = 2
          /\ calls[k].args[1] = CortexNone
          /\ calls[k].args[2][1] = "String" /\ calls[k].args[2][2] # <<>>

\* C6: a call of run makes at most one call: the handler of the entry
\* find_function returned if it returned one; the fallback if it returned
\* none and there is a fallback; nothing, returning Ok, if it returned none
\* and there is no fallback.  Handler and fallback are never both called.
C6_OneInvocation ==
    Returned =>
        LET A == Attempts
        IN /\ Len(calls) <= 1
           /\ ~(HandlerCalls # {} /\ FallbackCalls # {})
           /\ Selected(A) =>
                /\ Len(calls) = 1 /\ calls[1].kind = "handler"
                /\ calls[1].function = templates[Lowest(Matching(A))].function
           /\ (NoneMatched(A) /\ fallback # None) =>
                /\ Len(calls) = 1 /\ calls[1].kind = "fallback"
           /\ (NoneMatched(A) /\ fallback = None) =>
                /\ calls = <<>> /\ result = Ok(<<>>)

\* C6 witness: nothing matched, there is no fallback, run returned Ok
C6_Witness ==
    /\ Returned /\ fallback = None /\ templates # <<>>
    /\ calls = <<>> /\ result = Ok(<<>>)
    /\ NoneMatched(Attempts)

(***************************************************************************)
(* SpecMatcher: the public functions of TemplateMatcher, called as         *)
(* tests/matching_tests.rs calls them, on a table, a template and an input *)
(* drawn from the sets below.                                              *)
(***************************************************************************)
MatchChars == {"a", "b", " "}
MatchInputs == SeqsUpTo(MatchChars, MaxInputLen)

TemplatePool == {
    \* a
    One(<<Word(<<"a">>)>>),
    \* a?
    One(<<OptWord(<<"a">>)>>),
    \* (a)?
    One(<<OptGroup(One(<<Word(<<"a">>)>>))>>),
    \* [x]
    One(<<Bind(<<"x">>)>>),
    \* {p}?
    One(<<OptCallSub(<<"p">>)>>),
    \* {p}? a [X] B
    One(<<OptCallSub(<<"p">>), Word(<<"a">>), Bind(<<"X">>), Word(<<"B">>)>>),
    \* a|b
    Either(<<Word(<<"a">>)>>, <<Word(<<"b">>)>>),
    \* a b?|[x]?
    Either(<<Word(<<"a">>), OptWord(<<"b">>)>>, <<OptBind(<<"x">>)>>),
    \* (a|b [y])? [x]
    One(<<OptGroup(Either(<<Word(<<"a">>)>>, <<Word(<<"b">>), Bind(<<"y">>)>>)), Bind(<<"x">>)>>),
    \* {q}
    One(<<CallSub(<<"q">>)>>),
    \* a (b|{q}?)
    One(<<Word(<<"a">>), Group(Either(<<Word(<<"b">>)>>, <<OptCallSub(<<"q">>)>>))>>),
    \* {s}
    One(<<CallSub(<<"s">>)>>),
    \* [x] [x]
    One(<<Bind(<<"x">>), Bind(<<"x">>)>>),
    \* a [x]|[x]
    Either(<<Word(<<"a">>), Bind(<<"x">>)>>, <<Bind(<<"x">>)>>),
    \* [x] {u}
    One(<<Bind(<<"x">>), CallSub(<<"u">>)>>),
    \* [y] {u}?
    One(<<Bind(<<"y">>), OptCallSub(<<"u">>)>>),
    \* {r}
    One(<<CallSub(<<"r">>)>>) }

InitMatcher ==
    /\ subtemplate_definitions \in Tables
    /\ templates = <<>>
    /\ fallback = None
    /\ pc = "matcher"
    /\ input \in MatchInputs
    /\ found = NotRun
    /\ calls = <<>>
    /\ result = NotRun
    /\ attempts = <<>>
    /\ template \in TemplatePool
    /\ regex_str = NotRun
    /\ matched = NotRun
    /\ symbols = <<>>
    /\ true_symbols = NotRun
    /\ sections = <<>>
    /\ lines = <<>>
    /\ submitted = <<>>
    /\ load_result = NotRun
    /\ VoiceIdle

\* matcher.convert_template_to_regex(&template)
call_convert_template_to_regex ==
    /\ pc = "matcher"
    /\ regex_str = NotRun
    /\ regex_str' = convert_template_to_regex(subtemplate_definitions, template)
    /\ UNCHANGED <<bundle, runv, template, matched, parsev, loadv, voicev>>

\* matcher.try_match(input, &template)
call_try_match ==
    /\ pc = "matcher"
    /\ matched = NotRun
    /\ matched' = try_match(subtemplate_definitions, input, template)
    /\ UNCHANGED <<bundle, runv, template, regex_str, parsev, loadv, voicev>>

NextMatcher ==
    \/ call_convert_template_to_regex
    \/ call_try_match

SpecMatcher == InitMatcher /\ [][NextMatcher]_vars

(***************************************************************************)
(* What a template refers to, read off the template and the table.         *)
(***************************************************************************)
RECURSIVE CallsOf(_)
\* the subtemplate names a template calls, in nested groups too
CallsOf(t) ==
    UNION {UNION {IF t.clauses[c].symbols[k].symbol.kind = "SubtemplateCall"
                  THEN {t.clauses[c].symbols[k].symbol.v}
                  ELSE IF t.clauses[c].symbols[k].symbol.kind = "Template"
                  THEN CallsOf(t.clauses[c].symbols[k].symbol.v)
                  ELSE {}
                  : k \in 1..Len(t.clauses[c].symbols)}
           : c \in 1..Len(t.clauses)}

RECURSIVE CallClosure(_, _)
\* the names reached from the names ns through the bodies of the table
CallClosure(defs, ns) ==
    LET more == ns \cup UNION {CallsOf(defs[n]) : n \in ns \cap DOMAIN defs}
    IN IF more = ns THEN ns ELSE CallClosure(defs, more)

RefsOf(defs, t) == CallClosure(defs, CallsOf(t))
MissingRefs(defs, t) == RefsOf(defs, t) \ DOMAIN defs
\* no subtemplate that t reaches calls itself, directly or through others
Inlinable(defs, t) ==
    \A n \in RefsOf(defs, t) \cap DOMAIN defs : n \notin RefsOf(defs, defs[n])

\* C7: a template that refers, directly, in a nested group or through the
\* subtemplates it inlines, to a name that the table lacks: try_match fails
\* with SubtemplateNotFound of such a name whatever the input; when
\* find_function comes to its entry, find_function and run return that very
\* error, and run calls neither a handler nor the fallback.
C7_SubtemplateNotFound ==
    (pc \in {"returned", "aborted"}) =>
        LET A == Attempts
        IN \A i \in 1..Len(templates) :
            LET t == templates[i].template
            IN (MissingRefs(subtemplate_definitions, t) # {}
                /\ Inlinable(subtemplate_definitions, t)) =>
                   /\ A[i].tag = "Err"
                   /\ A[i].val[1] = "SubtemplateNotFound"
                   /\ A[i].val[2] \in MissingRefs(subtemplate_definitions, t)
                   /\ (\A k \in 1..(i - 1) : A[k] = Ok(None)) =>
                        /\ pc = "returned"
                        /\ found = A[i]
                        /\ result = A[i]
                        /\ calls = <<>>

\* C7 witness: the second entry reaches the missing name through a nested
\* group and an inlined subtemplate, the first did not match, a fallback
\* exists, and run returned the error
C7_Witness ==
    /\ Returned
    /\ Len(templates) = 2
    /\ fallback # None
    /\ result = Err(SubtemplateNotFound(<<"q">>))
    /\ calls = <<>>
    /\ <<"s">> \in CallsOf(templates[2].template)
    /\ Attempt(1) = Ok(None)

RECURSIVE BindingsOf(_, _)
\* the binding names of a template in order of appearance, those of its
\* nested groups and of the subtemplates it inlines included
BindingsOf(defs, t) ==
    Flatten([c \in 1..Len(t.clauses) |->
        Flatten([k \in 1..Len(t.clauses[c].symbols) |->
            LET sym == t.clauses[c].symbols[k].symbol
            IN CASE sym.kind = "VarBind" -> <<sym.v>>
                 [] sym.kind = "Template" -> BindingsOf(defs, sym.v)
                 [] sym.kind = "SubtemplateCall" -> BindingsOf(defs, defs[sym.v])
                 [] OTHER -> <<>>])])

\* every call of t resolves and can be inlined
Resolves(defs, t) == MissingRefs(defs, t) = {} /\ Inlinable(defs, t)

HasDuplicate(names) == \E i, j \in 1..Len(names) : i # j /\ names[i] = names[j]

\* C8: uniqueness.  A template in which a binding name occurs twice, in one
\* clause, in two clauses or once in the template and once in a subtemplate
\* it inlines, is rejected when its regex is compiled: try_match returns
\* InvalidRegex, whatever the input.
C8_Uniqueness ==
    (matched # NotRun
     /\ Resolves(subtemplate_definitions, template)
     /\ HasDuplicate(BindingsOf(subtemplate_definitions, template))) =>
        matched = Err(InvalidRegex)

\* C8 witness: the second occurrence of the name is in a subtemplate that is
\* inlined through another one, and try_match returned InvalidRegex
C8_Witness ==
    /\ matched = Err(InvalidRegex)
    /\ template = One(<<Bind(<<"x">>), CallSub(<<"u">>)>>)
    /\ input # <<>>

RECURSIVE RefBody(_, _)
RECURSIVE RefFragment(_, _)
\* the reference synthesis of a symbol: the fragment of its kind, followed
\* by `?` if it is optional, a literal being first wrapped in `(?:` `)`
RefFragment(defs, sym) ==
    LET k == sym.symbol.kind
        v == sym.symbol.v
        base == CASE k = "Text" -> to_lowercase(v)
                  [] k = "VarBind" -> <<"(", "?", "<">> \o to_lowercase(v) \o <<">", ".", "*", ")">>
                  [] k = "SubtemplateCall" -> <<"(", "?", ":">> \o RefBody(defs, defs[v]) \o <<")">>
                  [] OTHER -> <<"(", "?", ":">> \o RefBody(defs, v) \o <<")">>
    IN IF ~sym.optional THEN base
       ELSE IF k = "Text" THEN <<"(", "?", ":">> \o base \o <<")", "?">>
       ELSE base \o <<"?">>

\* the reference synthesis of a template: clauses joined with `|`, the
\* fragments of a clause joined with `\s*`
RefBody(defs, t) ==
    join([c \in 1..Len(t.clauses) |->
            join([k \in 1..Len(t.clauses[c].symbols) |->
                    RefFragment(defs, t.clauses[c].symbols[k])], <<"\\", "s", "*">>)],
         <<"|">>)

Count(s, ch) == Cardinality({i \in 1..Len(s) : s[i] = ch})

\* C9: convert_template_to_regex returns `^`, the reference synthesis of the
\* template, `$`; it returns a regex whenever every call resolves; and the
\* regex has no anchor but its first and its last character.
C9_ReferenceSynthesis ==
    (regex_str # NotRun) =>
        /\ Resolves(subtemplate_definitions, template) => regex_str.tag = "Ok"
        /\ regex_str.tag = "Ok" =>
             /\ regex_str.val =
                  <<"^">> \o RefBody(subtemplate_definitions, template) \o <<"$">>
             /\ Count(regex_str.val, "^") = 1
             /\ Count(regex_str.val, "$") = 1

\* C9 witness: `{p}? a [X] B` with p = `(a|b) a?` gave
\* ^(?:(?:a|b)\s*(?:a)?)?\s*a\s*(?<x>.*)\s*b$
C9_Witness ==
    /\ template = One(<<OptCallSub(<<"p">>), Word(<<"a">>), Bind(<<"X">>), Word(<<"B">>)>>)
    /\ regex_str = Ok(<<"^", "(", "?", ":", "(", "?", ":", "a", "|", "b", ")", "\\", "s", "*",
                        "(", "?", ":", "a", ")", "?", ")", "?", "\\", "s", "*", "a",
                        "\\", "s", "*", "(", "?", "<", "x", ">", ".", "*", ")",
                        "\\", "s", "*", "b", "$">>)

RECURSIVE SymbolsOf(_)
\* the symbols of a template and of its nested groups
SymbolsOf(t) ==
    UNION {UNION {{t.clauses[c].symbols[k]}
                  \cup (IF t.clauses[c].symbols[k].symbol.kind = "Template"
                        THEN SymbolsOf(t.clauses[c].symbols[k].symbol.v) ELSE {})
                  : k \in 1..Len(t.clauses[c].symbols)}
           : c \in 1..Len(t.clauses)}

Required(sym) == [sym EXCEPT !.optional = FALSE]

\* C10: the fragment of an optional symbol is the fragment of the symbol
\* itself, a group in parentheses, followed by `?` if the symbol is a
\* binding, a call or a nested group, and `(?:` literal `)?` if it is a
\* literal, never the literal followed by `?`; a template that is one
\* optional symbol compiles to that fragment between the anchors.
C10_OptionalSynthesis ==
    (regex_str # NotRun /\ regex_str.tag = "Ok") =>
        \A sym \in SymbolsOf(template) :
            sym.optional =>
                LET frag == convert_symbol(subtemplate_definitions, sym, {}).val
                    base == convert_symbol(subtemplate_definitions, Required(sym), {}).val
                IN /\ sym.symbol.kind = "Text" =>
                        /\ frag = <<"(", "?", ":">> \o sym.symbol.v \o <<")", "?">>
                        /\ frag # sym.symbol.v \o <<"?">>
                   /\ sym.symbol.kind # "Text" =>
                        /\ frag = base \o <<"?">>
                        /\ base[1] = "(" /\ base[Len(base)] = ")"
                   /\ template = One(<<sym>>) =>
                        regex_str.val = <<"^">> \o to_lowercase(frag) \o <<"$">>

\* C10 witness: `a?` gave ^(?:a)?$
C10_Witness ==
    /\ template = One(<<OptWord(<<"a">>)>>)
    /\ regex_str = Ok(<<"^", "(", "?", ":", "a", ")", "?", "$">>)

(***************************************************************************)
(* Subtemplate transparency.                                               *)
(***************************************************************************)
RECURSIVE Inline(_, _, _)
\* t with every call `{n}`, those of its nested groups included, replaced by
\* the body of n written in its place as a group `(body)`; the `?` of the
\* call stays on the group
Inline(defs, t, n) ==
    Template([c \in 1..Len(t.clauses) |->
        Clause([k \in 1..Len(t.clauses[c].symbols) |->
            LET sym == t.clauses[c].symbols[k]
            IN IF sym.symbol.kind = "SubtemplateCall" /\ sym.symbol.v = n
               THEN Symbol(Nested(defs[n]), sym.optional)
               ELSE IF sym.symbol.kind = "Template"
               THEN Symbol(Nested(Inline(defs, sym.symbol.v, n)), sym.optional)
               ELSE sym])])

\* C11: subtemplate transparency.  For every name n of the table, the
\* template with the calls of n replaced by the body of n, written inline
\* as a group, compiles to the same regex as the template with the calls,
\* and try_match gives the same result on it: the same inputs match, with
\* the same bindings.
C11_Transparency ==
    \A n \in DOMAIN subtemplate_definitions :
        LET inlined == Inline(subtemplate_definitions, template, n)
        IN /\ regex_str # NotRun =>
                convert_template_to_regex(subtemplate_definitions, inlined) = regex_str
           /\ matched # NotRun =>
                try_match(subtemplate_definitions, input, inlined) = matched

\* C11 witness: `{p}? a [X] B` matched with a binding, and inlining p
\* changes the template
C11_Witness ==
    /\ template = One(<<OptCallSub(<<"p">>), Word(<<"a">>), Bind(<<"X">>), Word(<<"B">>)>>)
    /\ <<"p">> \in DOMAIN subtemplate_definitions
    /\ Inline(subtemplate_definitions, template, <<"p">>) # template
    /\ matched.tag = "Ok" /\ matched.val # None
    /\ DOMAIN matched.val[2] = {<<"x">>}

(***************************************************************************)
(* Bindings of a Match.                                                    *)
(***************************************************************************)
Matched == matched # NotRun /\ matched.tag = "Ok" /\ matched.val # None
Bindings == matched.val[2]

\* the names of the bindings that are required symbols of a template of one
\* clause: their groups take part in every match
RequiredBindings(t) ==
    IF Len(t.clauses) # 1 THEN {}
    ELSE {t.clauses[1].symbols[k].symbol.v : k \in
            {k \in 1..Len(t.clauses[1].symbols) :
                /\ t.clauses[1].symbols[k].symbol.kind = "VarBind"
                /\ ~t.clauses[1].symbols[k].optional}}

\* C12: a binding `[name]` binds the matched text to the name as written in
\* the template: every key of a Match is a name written in the template or
\* in a subtemplate it inlines, and the binding of a required `[name]` is
\* retrieved with get_binding under that very name.
C12_BindingName ==
    Matched =>
        /\ \A n \in DOMAIN Bindings :
              \E i \in 1..Len(BindingsOf(subtemplate_definitions, template)) :
                  BindingsOf(subtemplate_definitions, template)[i] = n
        /\ \A n \in RequiredBindings(template) : get_binding(Bindings, n) # None

has_outer_whitespace(s) == s # <<>> /\ (is_whitespace(s[1]) \/ is_whitespace(s[Len(s)]))

\* C13: binding trim.  Every value of a Match has no leading and no trailing
\* whitespace, and a group that took no part in the match has no entry: in
\* `(a|b [y])? [x]` y is bound exactly when the input begins with b, in
\* `a b?|[x]?` x is bound exactly when the input does not begin with a, in
\* `[y] {u}?` (u = `{t}`, t = `a [x]?`) x is never bound; x and y of the
\* first and y of the last are bound in every match.
C13_BindingTrim ==
    Matched =>
        /\ \A n \in DOMAIN Bindings : ~has_outer_whitespace(Bindings[n])
        /\ template = One(<<OptGroup(Either(<<Word(<<"a">>)>>,
                                             <<Word(<<"b">>), Bind(<<"y">>)>>)),
                            Bind(<<"x">>)>>) =>
              /\ <<"x">> \in DOMAIN Bindings
              /\ <<"y">> \in DOMAIN Bindings <=> (input # <<>> /\ input[1] = "b")
        /\ template = Either(<<Word(<<"a">>), OptWord(<<"b">>)>>, <<OptBind(<<"x">>)>>) =>
              (<<"x">> \in DOMAIN Bindings <=> ~(input # <<>> /\ input[1] = "a"))
        /\ (template = One(<<Bind(<<"y">>), OptCallSub(<<"u">>)>>)) =>
              DOMAIN Bindings = {<<"y">>}

\* C13 witness: `[y] {u}?` matched an input with leading whitespace: y is
\* the trimmed text and x, whose group took no part, has no entry
C13_Witness ==
    /\ Matched
    /\ template = One(<<Bind(<<"y">>), OptCallSub(<<"u">>)>>)
    /\ input = <<" ", "a">>
    /\ Bindings = (<<"y">> :> <<"a">>)

(***************************************************************************)
(* Letter case and normalization in the dispatcher.                        *)
(***************************************************************************)
CasePairs == {{"a", "A"}, {"b", "B"}, {"x", "X"}}
\* x and y are the same text up to the case of their letters
DiffersInCaseOnly(x, y) ==
    /\ Len(x) = Len(y)
    /\ \A i \in 1..Len(x) : x[i] = y[i] \/ {x[i], y[i]} \in CasePairs

\* C14: case-insensitive dispatch.  Whatever input run was given, every
\* input that differs from it only in letter case makes find_function
\* return the same thing (the same entry with the same bindings, none, or
\* the same failure), and an entry whose template is one literal matches
\* every input that is that literal up to letter case.
C14_CaseInsensitive ==
    (pc \in {"returned", "aborted"}) =>
        /\ \A other \in Inputs :
              DiffersInCaseOnly(other, input) =>
                  find_function(subtemplate_definitions, templates, sanitize(other)) = found
        /\ \A i \in 1..Len(templates) :
              LET t == templates[i].template
              IN (/\ Len(t.clauses) = 1 /\ Len(t.clauses[1].symbols) = 1
                  /\ t.clauses[1].symbols[1].symbol.kind = "Text"
                  /\ ~t.clauses[1].symbols[1].optional
                  /\ DiffersInCaseOnly(t.clauses[1].symbols[1].symbol.v, input)) =>
                     Attempt(i) = Ok(Some(NoCaps))

\* C14 witness: the entry `A` was selected for the input "a"
C14_Witness ==
    /\ Returned
    /\ input = <<"a">>
    /\ Len(templates) = 1 /\ templates[1].template = One(<<Word(<<"A">>)>>)
    /\ FoundMatch /\ found.val[2].entry = 1
    /\ Len(calls) = 1 /\ calls[1].kind = "handler"

\* C15: idempotence of normalization.  Normalizing the normalized input
\* changes nothing, and the normalized input holds only whitespace and
\* alphanumeric characters that lower-casing leaves as they are.
C15_NormalizeIdempotent ==
    (pc # "read_line") =>
        /\ sanitize(sanitize(input)) = sanitize(input)
        /\ \A i \in 1..Len(sanitize(input)) :
              /\ is_alphanumeric(sanitize(input)[i]) \/ is_whitespace(sanitize(input)[i])
              /\ LowerOf(sanitize(input)[i]) = sanitize(input)[i]
        /\ Len(sanitize(input)) <= Len(input)

\* C15 witness: run normalized "A!" to "a"
C15_Witness ==
    /\ Returned
    /\ input = <<"A", "!">>
    /\ sanitize(input) = <<"a">>
    /\ Len(templates) = 1 /\ templates[1].template = One(<<Word(<<"A">>)>>)
    /\ FoundMatch

(***************************************************************************)
(* SpecParser: parse_clause on the symbols of one clause as parse_symbol   *)
(* returned them, a Text holding the words of a phrase.                    *)
(***************************************************************************)
RawSymbolPool == {
    Symbol(Text(<<"a">>), TRUE),
    Symbol(Text(<<"a", " ", "b">>), FALSE),
    Symbol(Text(<<"a", " ", "b">>), TRUE),
    Symbol(Text(<<"b", "a", " ", " ", "a", "\t", "c">>), TRUE),
    Symbol(VarBind(<<"x">>), TRUE),
    Symbol(SubtemplateCall(<<"p", " ", "q">>), TRUE),
    Symbol(SubtemplateCall(<<"p">>), FALSE),
    Symbol(Nested(Either(<<Word(<<"a">>)>>, <<Word(<<"b">>)>>)), TRUE) }

InitParser ==
    /\ subtemplate_definitions = EmptyTable
    /\ templates = <<>>
    /\ fallback = None
    /\ pc = "parser"
    /\ input = <<>>
    /\ found = NotRun
    /\ calls = <<>>
    /\ result = NotRun
    /\ attempts = <<>>
    /\ template = One(<<>>)
    /\ regex_str = NotRun
    /\ matched = NotRun
    /\ symbols \in SeqsUpTo(RawSymbolPool, MaxSymbols)
    /\ true_symbols = NotRun
    /\ sections = <<>>
    /\ lines = <<>>
    /\ submitted = <<>>
    /\ load_result = NotRun
    /\ VoiceIdle

\* parser.rs 47-71, after the loop over parse_symbol
call_parse_clause ==
    /\ pc = "parser"
    /\ true_symbols = NotRun
    /\ true_symbols' = Ok(parse_clause_split(symbols))
    /\ UNCHANGED <<bundle, runv, matchv, symbols, loadv, voicev>>

NextParser == call_parse_clause

SpecParser == InitParser /\ [][NextParser]_vars

\* the places of a text where a word begins, and where one ends
WordStarts(text) ==
    {i \in 1..Len(text) : ~is_whitespace(text[i]) /\ (i = 1 \/ is_whitespace(text[i - 1]))}
WordEnds(text) ==
    {i \in 1..Len(text) :
        ~is_whitespace(text[i]) /\ (i = Len(text) \/ is_whitespace(text[i + 1]))}
\* the k-th smallest member of a set of numbers
Kth(S, k) == CHOOSE i \in S : Cardinality({j \in S : j <= i}) = k
\* the k-th word of a text
WordAt(text, k) == SubSeq(text, Kth(WordStarts(text), k), Kth(WordEnds(text), k))
\* the number of symbols that stand for the symbol sym after the split
Width(sym) ==
    IF sym.symbol.kind = "Text" THEN Cardinality(WordStarts(sym.symbol.v)) ELSE 1
RECURSIVE Offset(_, _)
\* the number of symbols that stand for the first k symbols of syms
Offset(syms, k) == IF k = 0 THEN 0 ELSE Offset(syms, k - 1) + Width(syms[k])

\* C16: word-splitting.  The Clause holds, for each symbol in order, one
\* Text per word of a Text symbol, the words in their order, the last with
\* the optional flag of the symbol and the others not optional, and every
\* other symbol itself, once.
C16_WordSplitting ==
    (true_symbols # NotRun) =>
        LET out == true_symbols.val.symbols
        IN /\ true_symbols.tag = "Ok"
           /\ Len(out) = Offset(symbols, Len(symbols))
           /\ \A k \in 1..Len(symbols) :
                LET sym == symbols[k]
                    base == Offset(symbols, k - 1)
                IN IF sym.symbol.kind = "Text"
                   THEN \A w \in 1..Width(sym) :
                          /\ out[base + w].symbol = Text(WordAt(sym.symbol.v, w))
                          /\ out[base + w].optional = (w = Width(sym) /\ sym.optional)
                   ELSE out[base + 1] = sym

\* C16 witness: the optional phrase `ba  a<tab>c` after an optional call
\* became ba, a, c?, and the call, whose name has a space, stayed one symbol
C16_Witness ==
    /\ symbols = <<Symbol(SubtemplateCall(<<"p", " ", "q">>), TRUE),
                   Symbol(Text(<<"b", "a", " ", " ", "a", "\t", "c">>), TRUE)>>
    /\ true_symbols = Ok(Clause(<<OptCallSub(<<"p", " ", "q">>), Word(<<"b", "a">>),
                                  Word(<<"a">>), OptWord(<<"c">>)>>))

(***************************************************************************)
(* SpecLoader: main (main.rs 17-38): the bundle file is loaded, then the   *)
(* console loop runs on what was loaded.  A file is written as a sequence  *)
(* of sections; a section is its lines and what its author means by it:    *)
(* the template and the function of an entry, the name and the body of a   *)
(* subtemplate, the function of a fallback.                                *)
(***************************************************************************)
Section(kind, ls, name, t, source, function) ==
    [kind |-> kind, lines |-> ls, name |-> name, template |-> t, source |-> source,
     function |-> function]

LinePlay1 == <<"f", "n", " ", "p", "(", "x", ")", "{">>
LineFallback1 == <<"f", "n", " ", "f", "(", "t", ")", "{">>
LineOther1 == <<"f", "n", " ", "o", "(", "t", ")", "{">>
Blank == <<>>

\* `{q} [x]` with a handler of two lines, and a blank line after the section
SecPlay ==
    Section("temp", <<DirTemp, <<"{", "q", "}", " ", "[", "x", "]">>, LinePlay1, <<"}">>,
                      DirEnd, Blank>>,
            <<>>, One(<<CallSub(<<"q">>), Bind(<<"x">>)>>), SrcPlay, fn_play)
\* `a` with a handler of one line, no blank line after the section
SecStop ==
    Section("temp", <<DirTemp, <<"a">>, SrcStop, DirEnd>>,
            <<>>, One(<<Word(<<"a">>)>>), SrcStop, fn_stop)
\* q = `b`
SecSubQ ==
    Section("sub", <<DirSub, <<"q">>, <<"b">>, DirEnd, Blank>>,
            <<"q">>, One(<<Word(<<"b">>)>>), <<>>, fn_stop)
\* q = `a b?`, the body on two lines
SecSubQ2 ==
    Section("sub", <<DirSub, <<"q">>, <<"a", " ">>, <<"b", "?">>, DirEnd>>,
            <<"q">>, One(<<Word(<<"a">>), OptWord(<<"b">>)>>), <<>>, fn_stop)
\* t = `a`, the name line written with a space before and after the name
SecSubSpaced ==
    Section("sub", <<DirSub, <<" ", "t", " ">>, <<"a">>, DirEnd, Blank>>,
            <<"t">>, One(<<Word(<<"a">>)>>), <<>>, fn_stop)
SecFallback ==
    Section("fallback", <<DirFallback, LineFallback1, <<"}">>, DirEnd, Blank>>,
            <<>>, One(<<>>), SrcFallback, fn_fallback)
\* a fallback whose handler has a blank line in it
SecOther ==
    Section("fallback", <<DirFallback, LineOther1, Blank, <<"}">>, DirEnd>>,
            <<>>, One(<<>>), SrcOther, RFunction("other", <<Param(<<"t">>, "string")>>))
\* a line that is no directive
SecIllegal ==
    Section("illegal", <<<<"a">>>>, <<>>, One(<<>>), <<>>, fn_stop)

SectionPool ==
    {SecPlay, SecStop, SecSubQ, SecSubQ2, SecSubSpaced, SecFallback, SecOther, SecIllegal}

\* the lines of the file written from the sections secs
Render(secs) == Flatten([k \in 1..Len(secs) |-> secs[k].lines])

LoaderInputs == {<<"b", " ", "a">>, <<"a">>, <<"a", " ", "b">>, <<"A", "!">>}

InitLoader ==
    /\ subtemplate_definitions = EmptyTable
    /\ templates = <<>>
    /\ fallback = None
    /\ pc = "load"
    /\ input = <<>>
    /\ found = NotRun
    /\ calls = <<>>
    /\ result = NotRun
    /\ attempts = <<>>
    /\ template = One(<<>>)
    /\ regex_str = NotRun
    /\ matched = NotRun
    /\ symbols = <<>>
    /\ true_symbols = NotRun
    /\ sections \in SeqsUpTo(SectionPool, MaxSections)
    /\ lines = Render(sections)
    /\ submitted = <<>>
    /\ load_result = NotRun
    /\ VoiceIdle

\* handler.rs 53-54: a line is left, load_next_thing is called
call_load_next_thing ==
    /\ pc = "load"
    /\ lines # <<>>
    /\ \E l \in {load_next_thing(Loader(lines, templates, subtemplate_definitions, fallback,
                                         submitted))} :
          /\ lines' = l.state.lines
          /\ templates' = l.state.templates
          /\ subtemplate_definitions' = l.state.defs
          /\ fallback' = l.state.fallback
          /\ submitted' = l.state.submitted
          /\ load_result' = IF l.result.tag = "Ok" THEN load_result ELSE l.result
          /\ pc' = IF l.result.tag = "Ok" THEN "load" ELSE "load_failed"
    /\ UNCHANGED <<input, found, calls, result, attempts, matchv, parsev, sections, voicev>>

\* handler.rs 53, 56: no line is left, load_from_file returns Ok; main goes
\* on to its loop
load_from_file_return ==
    /\ pc = "load"
    /\ lines = <<>>
    /\ load_result' = Ok(<<>>)
    /\ pc' = "read_line"
    /\ UNCHANGED <<bundle, input, found, calls, result, attempts, matchv, parsev, sections,
                   lines, submitted,
                   voicev>>

NextLoader ==
    \/ call_load_next_thing
    \/ load_from_file_return
    \/ \E line \in LoaderInputs : read_line(line)
    \/ run
    \/ main_continue
    \/ main_exit

SpecLoader == InitLoader /\ [][NextLoader]_vars

(***************************************************************************)
(* What the author of the file wrote, read off the sections.               *)
(***************************************************************************)
OfKind(secs, kind) == SelectSeq(secs, LAMBDA sec : sec.kind = kind)
WellFormed(secs) == \A k \in 1..Len(secs) : secs[k].kind # "illegal"
\* the entries of the `% temp` sections, in file order
WrittenEntries(secs) ==
    [k \in 1..Len(OfKind(secs, "temp")) |->
        TemplateEntry(OfKind(secs, "temp")[k].template, OfKind(secs, "temp")[k].function)]
\* the handler of the last `% fallback` section
WrittenFallback(secs) ==
    IF OfKind(secs, "fallback") = <<>> THEN None
    ELSE Some(OfKind(secs, "fallback")[Len(OfKind(secs, "fallback"))].function)
Loaded_Ok == load_result = Ok(<<>>)

\* C17: after load_from_file has returned Ok, the entries are the `% temp`
\* sections of the file, one entry per section in file order, and the
\* fallback is the handler of the last `% fallback` section, none if the
\* file has no such section; and a file of well-formed sections loads.
C17_EntriesInFileOrder ==
    /\ Loaded_Ok =>
          /\ templates = WrittenEntries(sections)
          /\ fallback = WrittenFallback(sections)
    /\ (pc = "load_failed") => ~WellFormed(sections)
    /\ (WellFormed(sections) /\ pc = "load" /\ lines = <<>>) =>
          templates = WrittenEntries(sections)

\* C17 witness: a file with the entries `a` and `{q} [x]`, in that order,
\* was loaded
C17_Witness ==
    /\ Loaded_Ok
    /\ sections = <<SecStop, SecPlay>>
    /\ Len(templates) = 2
    /\ templates[1].function = fn_stop /\ templates[2].function = fn_play

\* the sections that have a handler, in file order
HandlerSections(secs) == SelectSeq(secs, LAMBDA sec : sec.kind \in {"temp", "fallback"})
\* the place of the `% end` line of a section
EndLine(sec) == CHOOSE i \in 1..Len(sec.lines) : sec.lines[i] = DirEnd
\* the handler body lines of a section as they stand in the file: the lines
\* after the template line (`% temp`) or after the directive (`% fallback`),
\* up to the `% end` line
BodyLines(sec) ==
    SubSeq(sec.lines, IF sec.kind = "temp" THEN 3 ELSE 2, EndLine(sec) - 1)

C19_TrimmedSubName ==
    Loaded_Ok =>
        \A k \in 1..Len(sections) :
            sections[k].kind = "sub" =>
                /\ trim(sections[k].lines[2]) \in DOMAIN subtemplate_definitions
                /\ convert_template_to_regex(subtemplate_definitions,
                        One(<<CallSub(trim(sections[k].lines[2]))>>)).tag = "Ok"

(***************************************************************************)
(* The same sections written in another order.                             *)
(***************************************************************************)
Orders(n) == {p \in [1..n -> 1..n] : \A i, j \in 1..n : p[i] = p[j] => i = j}
Reordered(secs, p) == [k \in 1..Len(secs) |-> secs[p[k]]]
\* p leaves the `% temp` sections of secs in their relative order
KeepsTempOrder(secs, p) ==
    \A i, j \in 1..Len(secs) :
        (i < j /\ secs[p[i]].kind = "temp" /\ secs[p[j]].kind = "temp") => p[i] < p[j]
\* p leaves the `% sub` sections of one name line in their relative order
KeepsSameNameSubOrder(secs, p) ==
    \A i, j \in 1..Len(secs) :
        (/\ i < j
         /\ secs[p[i]].kind = "sub" /\ secs[p[j]].kind = "sub"
         /\ secs[p[i]].lines[2] = secs[p[j]].lines[2]) => p[i] < p[j]
\* the load l of another file ends as the load of this file did, and the
\* console line selects from it what run selected
SameSelection(l) ==
    /\ l.result = load_result
    /\ (pc = "returned") =>
          find_function(l.state.defs, l.state.templates, sanitize(input)) = found

\* C20 as claimed: once the load has ended, a file of the same sections in
\* any order that keeps the relative order of the `% temp` sections loads
\* with the same result, and every console line selects the same entry with
\* the same bindings from it.
C20_OnlyTempOrder ==
    (load_result # NotRun) =>
        \A p \in Orders(Len(sections)) :
            KeepsTempOrder(sections, p) =>
                SameSelection(load_from_file(Render(Reordered(sections, p))))

\* C20 amended: the same for the orders that also keep the relative order
\* of the `% sub` sections that define the same name.  In particular a
\* `% temp` section may stand before the `% sub` section it calls.
C20_TempAndSameNameSubOrder ==
    (load_result # NotRun) =>
        \A p \in Orders(Len(sections)) :
            (KeepsTempOrder(sections, p) /\ KeepsSameNameSubOrder(sections, p)) =>
                SameSelection(load_from_file(Render(Reordered(sections, p))))

\* C20 witness: `{q} [x]` stands before the section that defines q, the
\* file was loaded, and the line "b a" selected the entry with x = "a"
C20_Witness ==
    /\ Loaded_Ok
    /\ sections = <<SecPlay, SecSubQ>>
    /\ pc = "returned"
    /\ input = <<"b", " ", "a">>
    /\ found.tag = "Ok"
    /\ found.val # None
    /\ found.val[2].entry = 1
    /\ found.val[2].match_inst[<<"x">>] = <<"a">>
    /\ calls # <<>> /\ calls[1].function = fn_play

(***************************************************************************)
(* SpecLines: load_from_file on a file drawn line by line, so that a       *)
(* section may be cut off anywhere and any line may stand at top level.    *)
(***************************************************************************)
IndentedTemp == <<" ">> \o DirTemp
LinePool == {DirTemp, DirSub, DirFallback, DirEnd, Blank, <<" ">>, IndentedTemp, <<"a">>,
             SrcStop}

InitLines ==
    /\ subtemplate_definitions = EmptyTable
    /\ templates = <<>>
    /\ fallback = None
    /\ pc = "load"
    /\ input = <<>>
    /\ found = NotRun
    /\ calls = <<>>
    /\ result = NotRun
    /\ attempts = <<>>
    /\ template = One(<<>>)
    /\ regex_str = NotRun
    /\ matched = NotRun
    /\ symbols = <<>>
    /\ true_symbols = NotRun
    /\ sections = <<>>
    /\ lines \in SeqsUpTo(LinePool, MaxLines)
    /\ submitted = <<>>
    /\ load_result = NotRun
    /\ VoiceIdle

NextLines ==
    \/ call_load_next_thing
    \/ load_from_file_return

SpecLines == InitLines /\ [][NextLines]_vars

\* the line is empty or made of whitespace
IsBlank(line) == \A i \in 1..Len(line) : line[i] \in SpaceChars
\* the line starts with one of the three directives that open a section
OpensSection(line) ==
    \E d \in {DirTemp, DirSub, DirFallback} :
        Len(line) >= Len(d) /\ \A i \in 1..Len(d) : line[i] = d[i]
handlerv == <<templates, subtemplate_definitions, fallback>>

\* C21: each time the loader reads a top-level line: a blank line is
\* skipped, the load goes on with the next line and nothing is stored; a
\* line that is not blank and does not start with `% temp`, `% sub` or
\* `% fallback` fails the load with IllegalLine of that line; and
\* IllegalLine is returned for no other line.
C21_IllegalLine ==
    [][call_load_next_thing =>
         /\ IsBlank(Head(lines)) =>
               /\ pc' = "load" /\ lines' = Tail(lines)
               /\ UNCHANGED <<handlerv, load_result, submitted>>
         /\ (~IsBlank(Head(lines)) /\ ~OpensSection(Head(lines))) =>
               /\ pc' = "load_failed"
               /\ load_result' = Err(IllegalLine(Head(lines)))
               /\ UNCHANGED handlerv
         /\ (load_result'.tag = "Err" /\ load_result'.val[1] = "IllegalLine") =>
               (~IsBlank(Head(lines)) /\ ~OpensSection(Head(lines)))]_vars

\* C21 witness: after a fallback section and a blank line, the load failed
\* on the line ` % temp`
C21_Witness ==
    /\ pc = "load_failed"
    /\ load_result = Err(IllegalLine(IndentedTemp))
    /\ fallback # None
    /\ lines = <<>>

\* the line starts with the directive d
Opens(line, d) == Len(line) >= Len(d) /\ \A i \in 1..Len(d) : line[i] = d[i]
\* one of the lines ls is a `% end` line
HasEnd(ls) == \E i \in 1..Len(ls) : Opens(ls[i], DirEnd)
\* the stage in which the file ends, should the section that the line top
\* opens be cut off by the end of the lines rest; "" if it is not cut off
CutOffStage(top, rest) ==
    CASE Opens(top, DirTemp) /\ rest = <<>> -> "reading template header"
      [] Opens(top, DirTemp) /\ rest # <<>> /\ ~HasEnd(Tail(rest)) -> "reading template function"
      [] Opens(top, DirSub) /\ rest = <<>> -> "reading subtemplate header"
      [] Opens(top, DirSub) /\ rest # <<>> /\ ~HasEnd(Tail(rest)) -> "reading subtemplate body"
      [] Opens(top, DirFallback) /\ ~HasEnd(rest) -> "reading fallback function"
      [] OTHER -> ""

\* C22: each time the loader reads a top-level line that opens a section
\* which the end of the file cuts off before its `% end` line, the load
\* fails with UnexpectedEof of the stage in which the input ended, and no
\* entry, subtemplate or fallback is added; UnexpectedEof is returned in no
\* other case.
C22_UnexpectedEof ==
    [][call_load_next_thing =>
         /\ CutOffStage(Head(lines), Tail(lines)) # "" =>
               /\ pc' = "load_failed"
               /\ load_result' = Err(UnexpectedEof(CutOffStage(Head(lines), Tail(lines))))
               /\ UNCHANGED handlerv
         /\ (load_result'.tag = "Err" /\ load_result'.val[1] = "UnexpectedEof") =>
               CutOffStage(Head(lines), Tail(lines)) # ""]_vars

\* C22 witness: after a fallback section was loaded the file ended with
\* the line `% temp`, and the load failed with no entry added
C22_Witness ==
    /\ pc = "load_failed"
    /\ load_result = Err(UnexpectedEof("reading template header"))
    /\ fallback # None
    /\ templates = <<>>

\* C23: a dispatch, whatever its input and its outcome, leaves the
\* subtemplate table, the entry list and the fallback as they were, and
\* dispatching the same input again against the bundle as the dispatch left
\* it selects the same entry with the same bindings.
C23_ReadOnlyAfterLoad ==
    [][(pc = "run") =>
          /\ bundle' = bundle
          /\ find_function(subtemplate_definitions', templates', sanitize(input)) = found']_vars

\* C23 witness: a dispatch selected the first of two entries with a
\* binding, and the bundle has a table, two entries and a fallback
C23_Witness ==
    /\ Returned
    /\ Len(templates) = 2 /\ fallback # None
    /\ FoundMatch /\ found.val[2].entry = 1
    /\ DOMAIN FoundInst # {}
    /\ result.tag = "Ok"

(***************************************************************************)
(* SpecHotkey: CommandRunner::run_loop (runner.rs 84-90).  rdev's listen   *)
(* calls handle_key_event for one key event after the other, each call     *)
(* running to its end before the next event is delivered.  The recorder is *)
(* seen through its calls: utils is Recorder.utils.is_some().  key_log      *)
(* counts the events handled, the calls of start_recording made while the  *)
(* recorder was recording (clashes), the calls of stop_recording that      *)
(* returned Ok (stopped), the calls of run made by handle_recording        *)
(* (dispatches) and the errors printed.                                    *)
(***************************************************************************)
RecordingError(msg) == <<"RecordingError", msg>>
Recorded(u, res) == [utils |-> u, result |-> res]

\* record.rs 50-132: device_ok is whether the host gives a device, a WAV
\* file and a stream
start_recording(u, device_ok) ==
    IF u THEN Recorded(u, Err(RecordingError("already recording")))
    ELSE IF ~device_ok THEN Recorded(FALSE, Err(RecordingError("device")))
    ELSE Recorded(TRUE, Ok(<<>>))

\* record.rs 133-147
stop_recording(u) ==
    IF u THEN Recorded(FALSE, Ok(<<>>))
    ELSE Recorded(FALSE, Err(RecordingError("not recording")))

\* the state that the key handlers work on
Keys(u, log) == [utils |-> u, log |-> log]
Plus(log, field, n) == [log EXCEPT ![field] = @ + n]

\* runner.rs 115-127: the error of start_recording is printed, not returned
on_record_start(st, device_ok) ==
    LET done(r) ==
            Keys(r.utils,
                 Plus(Plus(st.log, "clashes", IF st.utils THEN 1 ELSE 0),
                      "printed", IF r.result.tag = "Err" THEN 1 ELSE 0))
    IN done(start_recording(st.utils, device_ok))

\* runner.rs 148-153: transcribe, then run on the transcript; an error of
\* either is returned to on_record_stop, which prints it
handle_recording(st, transcript_ok, run_ok) ==
    IF ~transcript_ok THEN Keys(st.utils, Plus(st.log, "printed", 1))
    ELSE Keys(st.utils,
              Plus(Plus(st.log, "dispatches", 1), "printed", IF run_ok THEN 0 ELSE 1))

\* runner.rs 128-146: the error of stop_recording is printed, and
\* handle_recording is called whatever stop_recording returned
on_record_stop(st, transcript_ok, run_ok) ==
    LET done(r) ==
            handle_recording(
                Keys(r.utils,
                     IF r.result.tag = "Err" THEN Plus(st.log, "printed", 1)
                     ELSE Plus(st.log, "stopped", 1)),
                transcript_ok, run_ok)
    IN done(stop_recording(st.utils))

KeyEvents == {"KeyPress(F8)", "KeyPress(Unknown(179))", "KeyRelease(F8)", "other"}

\* runner.rs 91-114
handle_key_event(event, device_ok, transcript_ok, run_ok) ==
    /\ key_log.events < MaxEvents
    /\ \E st \in {Keys(utils, Plus(key_log, "events", 1))} :
          \E after \in {
                CASE event = "KeyPress(F8)" ->
                       IF ~f8_down THEN <<TRUE, sp_button_pressed, on_record_start(st, device_ok)>>
                       ELSE <<f8_down, sp_button_pressed, st>>
                  [] event = "KeyPress(Unknown(179))" ->
                       IF sp_button_pressed
                       THEN <<f8_down, FALSE, on_record_stop(st, transcript_ok, run_ok)>>
                       ELSE <<f8_down, TRUE, on_record_start(st, device_ok)>>
                  [] event = "KeyRelease(F8)" ->
                       <<FALSE, sp_button_pressed, on_record_stop(st, transcript_ok, run_ok)>>
                  [] OTHER -> <<f8_down, sp_button_pressed, st>>} :
             /\ f8_down' = after[1]
             /\ sp_button_pressed' = after[2]
             /\ utils' = after[3].utils
             /\ key_log' = after[3].log
    /\ UNCHANGED <<bundle, runv, matchv, parsev, loadv, recv>>

InitHotkey ==
    /\ subtemplate_definitions = EmptyTable
    /\ templates = <<>>
    /\ fallback = None
    /\ pc = "listen"
    /\ input = <<>>
    /\ found = NotRun
    /\ calls = <<>>
    /\ result = NotRun
    /\ attempts = <<>>
    /\ template = One(<<>>)
    /\ regex_str = NotRun
    /\ matched = NotRun
    /\ symbols = <<>>
    /\ true_symbols = NotRun
    /\ sections = <<>>
    /\ lines = <<>>
    /\ submitted = <<>>
    /\ load_result = NotRun
    /\ VoiceIdle

NextHotkey ==
    \E event \in KeyEvents, device_ok \in BOOLEAN, transcript_ok \in BOOLEAN,
       run_ok \in BOOLEAN :
        handle_key_event(event, device_ok, transcript_ok, run_ok)

SpecHotkey == InitHotkey /\ [][NextHotkey]_vars

\* the event asks for a new recording: F8 goes down, or the headset button
\* is pressed while its toggle says that it has not started a recording
AsksStart(event) ==
    \/ event = "KeyPress(F8)"
    \/ event = "KeyPress(Unknown(179))" /\ ~sp_button_pressed

\* C24: a key event that asks for a new recording while the recorder is
\* recording is ignored: handling it does not call start_recording on the
\* recording Recorder, prints no error, and leaves the recorder and the
\* flags f8_down and sp_button_pressed as they were.
C24_StartIgnoredWhileRecording ==
    [][\A event \in KeyEvents, device_ok \in BOOLEAN, transcript_ok \in BOOLEAN,
          run_ok \in BOOLEAN :
            (/\ utils
             /\ AsksStart(event)
             /\ handle_key_event(event, device_ok, transcript_ok, run_ok)) =>
                /\ key_log'.clashes = key_log.clashes
                /\ key_log'.printed = key_log.printed
                /\ UNCHANGED <<utils, f8_down, sp_button_pressed>>]_vars

\* C28: handle_recording transcribes and dispatches only after a call of
\* stop_recording that returned Ok, which it does only for a recording that
\* was started: the dispatches made never outnumber the recordings
\* stopped, and a stop event with no recording in progress dispatches
\* nothing.
C28_DispatchOnlyAfterStop ==
    key_log.dispatches <= key_log.stopped

\* C25: when run has returned an error, the step that main takes next goes
\* back to reading a line: an error on one input does not end the loop.
C25_LoopSurvivesError ==
    [][(pc = "returned" /\ result.tag = "Err") => pc' = "read_line"]_vars

\* the clause by itself, a template of one clause, matches the input; the
\* regex of a template of one clause is `^` clause `$`
ClauseMatchesWhole(defs, text, clause) ==
    LET is_match(r) == r.tag = "Ok" /\ r.val # None
    IN is_match(try_match(defs, text, Template(<<clause>>)))

\* C26: try_match returns a match only if some clause of the template, taken
\* by itself, matches the input from its first to its last character.
C26_FullStringAlternation ==
    Matched =>
        \E c \in 1..Len(template.clauses) :
            ClauseMatchesWhole(subtemplate_definitions, input, template.clauses[c])

\* the entries whose try_match result, each taken by itself, is not a plain
\* non-match: a match, a synthesis error, or a synthesis that does not end
Deciding(A) == {i \in 1..Len(A) : A[i] # Ok(None)}

\* C27: the first entry in bundle order whose try_match result is not a
\* plain non-match decides find_function.  If it matches, find_function
\* returns its handler and bindings and run calls that handler, whatever
\* the entries after it would do; if it fails synthesis, find_function and
\* run return its error and nothing is called.  The entries after it are
\* not compiled: run returns even if one of them has a synthesis that does
\* not end, and aborts only if the deciding entry has one.  The fallback is
\* called only when every entry compiled and none matched.
C27_FirstDecides ==
    /\ (Returned /\ Deciding(attempts) # {}) =>
          LET d == Lowest(Deciding(attempts))
          IN /\ attempts[d].tag # "Overflow"
             /\ (attempts[d].tag = "Ok") =>
                   /\ found = Ok(Some(MatchResult(d, templates[d].function,
                                                  attempts[d].val[2])))
                   /\ Len(calls) = 1
                   /\ calls[1].kind = "handler" /\ calls[1].entry = d
             /\ (attempts[d].tag = "Err") =>
                   /\ found = attempts[d]
                   /\ result = attempts[d]
                   /\ calls = <<>>
    /\ (Returned /\ Deciding(attempts) = {}) => found = Ok(None)
    /\ (pc = "aborted") =>
          /\ Deciding(attempts) # {}
          /\ attempts[Lowest(Deciding(attempts))].tag = "Overflow"
    /\ (pc \in {"returned", "aborted"} /\ FallbackCalls # {}) => Deciding(attempts) = {}

\* C27 witness: the first entry matched and its handler was called although
\* the second entry fails synthesis
C27_Witness ==
    /\ Returned
    /\ Len(templates) = 2
    /\ attempts[1].tag = "Ok" /\ attempts[1].val # None
    /\ attempts[2].tag = "Err"
    /\ Len(calls) = 1 /\ calls[1].entry = 1
    /\ result.tag = "Ok"

\* C29: convert_template_to_regex returns, a regex string or
\* SubtemplateNotFound, for every template and every subtemplate table,
\* a table with a subtemplate that calls itself included.
C29_SynthesisTerminates ==
    (regex_str # NotRun) =>
        \/ regex_str.tag = "Ok"
        \/ regex_str.tag = "Err" /\ regex_str.val[1] = "SubtemplateNotFound"

(***************************************************************************)
(* SpecRecorder: the Recorder (record.rs) under its two threads.  The main *)
(* thread calls start_recording and stop_recording, one step per statement *)
(* that the callback can see; the stream's thread calls write_input_data   *)
(* for a buffer while the stream exists.  writer is the Option inside the  *)
(* Mutex: "none" or "open" ("finalized" would be a finalized writer left   *)
(* in the Option); lock is the holder of the Mutex; stream is "none",      *)
(* "built", "playing" or "paused".  rec_log counts the calls, the buffers, *)
(* the buffers written to an open writer (written), to a finalized one     *)
(* (late), the buffers dropped, and keeps the result of the last call.     *)
(***************************************************************************)
\* record.rs 50-126: the check of utils, then the device, the writer and
\* the stream
start_recording_enter(device_ok) ==
    /\ main_pc = "idle"
    /\ rec_log.calls < MaxCalls
    /\ IF utils
       THEN /\ rec_log' = [rec_log EXCEPT !.calls = @ + 1, !.last = "Err(already recording)"]
            /\ UNCHANGED <<writer, lock, stream, main_pc>>
       ELSE IF ~device_ok
       THEN /\ rec_log' = [rec_log EXCEPT !.calls = @ + 1, !.last = "Err(device)"]
            /\ UNCHANGED <<writer, lock, stream, main_pc>>
       ELSE /\ rec_log' = [rec_log EXCEPT !.calls = @ + 1, !.last = "none"]
            /\ writer' = "open"
            /\ lock' = "free"
            /\ stream' = "built"
            /\ main_pc' = "start_play"
    /\ UNCHANGED <<bundle, runv, matchv, parsev, loadv, keyv, utils, callback_pc>>

\* record.rs 129: stream.play()
start_recording_play ==
    /\ main_pc = "start_play"
    /\ stream' = "playing"
    /\ main_pc' = "start_store"
    /\ UNCHANGED <<bundle, runv, matchv, parsev, loadv, keyv, utils, writer, lock,
                   callback_pc, rec_log>>

\* record.rs 130-131: self.utils = Some((writer, stream)); Ok(())
start_recording_store ==
    /\ main_pc = "start_store"
    /\ utils' = TRUE
    /\ main_pc' = "idle"
    /\ rec_log' = [rec_log EXCEPT !.last = "Ok"]
    /\ UNCHANGED <<bundle, runv, matchv, parsev, loadv, keyv, writer, lock, stream,
                   callback_pc>>

\* record.rs 134, 140-144: self.utils.take()
stop_recording_take ==
    /\ main_pc = "idle"
    /\ rec_log.calls < MaxCalls
    /\ IF utils
       THEN /\ utils' = FALSE
            /\ main_pc' = "stop_pause"
            /\ rec_log' = [rec_log EXCEPT !.calls = @ + 1, !.last = "none"]
       ELSE /\ rec_log' = [rec_log EXCEPT !.calls = @ + 1, !.last = "Err(not recording)"]
            /\ UNCHANGED <<utils, main_pc>>
    /\ UNCHANGED <<bundle, runv, matchv, parsev, loadv, keyv, writer, lock, stream,
                   callback_pc>>

\* record.rs 136: stream.pause()
stop_recording_pause ==
    /\ main_pc = "stop_pause"
    /\ stream' = "paused"
    /\ main_pc' = "stop_lock"
    /\ UNCHANGED <<bundle, runv, matchv, parsev, loadv, keyv, utils, writer, lock,
                   callback_pc, rec_log>>

\* record.rs 137: writer.lock(), which waits for the Mutex
stop_recording_lock ==
    /\ main_pc = "stop_lock"
    /\ lock = "free"
    /\ lock' = "main"
    /\ main_pc' = "stop_finalize"
    /\ UNCHANGED <<bundle, runv, matchv, parsev, loadv, keyv, utils, writer, stream,
                   callback_pc, rec_log>>

\* a finalize that leaves the finalized writer in the Option
finalize_in_place(w) == "finalized"

\* record.rs 137: .take().unwrap().finalize() on the Option under the lock
finalize_taken(w) == "none"

\* record.rs 137: the writer is taken and finalized, the guard is dropped
stop_recording_finalize ==
    /\ main_pc = "stop_finalize"
    /\ writer' = finalize_taken(writer)
    /\ lock' = "free"
    /\ main_pc' = "stop_drop"
    /\ UNCHANGED <<bundle, runv, matchv, parsev, loadv, keyv, utils, stream, callback_pc,
                   rec_log>>

\* record.rs 138-139: Ok(()), the stream is dropped with the match arm.
\* Dropping a cpal stream stops it and returns when no callback is running;
\* a callback still running would hold the Mutex of this recording, whose
\* Option is empty by now, and not that of the next one.
stop_recording_drop ==
    /\ main_pc = "stop_drop"
    /\ callback_pc = "idle"
    /\ stream' = "none"
    /\ main_pc' = "idle"
    /\ rec_log' = [rec_log EXCEPT !.last = "Ok"]
    /\ UNCHANGED <<bundle, runv, matchv, parsev, loadv, keyv, utils, writer, lock,
                   callback_pc>>

\* record.rs 173: writer.try_lock() for a new buffer; a held Mutex makes
\* the callback return, the buffer is dropped
write_input_data_try_lock ==
    /\ callback_pc = "idle"
    /\ stream \in {"playing", "paused"}
    /\ rec_log.callbacks < MaxCallbacks
    /\ IF lock = "free"
       THEN /\ lock' = "callback"
            /\ callback_pc' = "locked"
            /\ rec_log' = [rec_log EXCEPT !.callbacks = @ + 1]
       ELSE /\ rec_log' = [rec_log EXCEPT !.callbacks = @ + 1, !.dropped = @ + 1]
            /\ UNCHANGED <<lock, callback_pc>>
    /\ UNCHANGED <<bundle, runv, matchv, parsev, loadv, keyv, utils, writer, stream,
                   main_pc>>

\* record.rs 174-179: the samples are written if the Option holds a writer
write_input_data_write ==
    /\ callback_pc = "locked"
    /\ rec_log' = IF writer = "open" THEN [rec_log EXCEPT !.written = @ + 1]
                  ELSE IF writer = "finalized" THEN [rec_log EXCEPT !.late = @ + 1]
                  ELSE rec_log
    /\ callback_pc' = "unlock"
    /\ UNCHANGED <<bundle, runv, matchv, parsev, loadv, keyv, utils, writer, lock, stream,
                   main_pc>>

\* record.rs 180: the guard is dropped
write_input_data_unlock ==
    /\ callback_pc = "unlock"
    /\ lock' = "free"
    /\ callback_pc' = "idle"
    /\ UNCHANGED <<bundle, runv, matchv, parsev, loadv, keyv, utils, writer, stream,
                   main_pc, rec_log>>

NextRecorder ==
    \/ \E device_ok \in BOOLEAN : start_recording_enter(device_ok)
    \/ start_recording_play
    \/ start_recording_store
    \/ stop_recording_take
    \/ stop_recording_pause
    \/ stop_recording_lock
    \/ stop_recording_finalize
    \/ stop_recording_drop
    \/ write_input_data_try_lock
    \/ write_input_data_write
    \/ write_input_data_unlock

SpecRecorder == InitHotkey /\ [][NextRecorder]_vars

recorderv == <<utils, writer, lock, stream, main_pc>>

\* the recorder and the callback at rest and in their steps
RecorderConsistent ==
    \* no buffer is written to a finalized writer; after the finalize the
    \* Option is empty
    /\ rec_log.late = 0
    /\ (main_pc = "stop_drop") => writer = "none"
    \* the callback is never waiting for the Mutex: it holds it or is not
    \* in the critical section
    /\ callback_pc \in {"idle", "locked", "unlock"}
    /\ (lock = "callback") <=> (callback_pc \in {"locked", "unlock"})
    \* between calls the recorder holds a writer and a stream exactly while
    \* it is recording
    /\ (main_pc = "idle" /\ utils) => (writer = "open" /\ stream = "playing")
    /\ (main_pc = "idle" /\ ~utils) => (writer = "none" /\ stream = "none")

RecorderStep ==
    \* samples are written to an open writer only
    /\ (rec_log'.written # rec_log.written) => (writer = "open" /\ lock = "callback")
    \* a contended try_lock drops the buffer and the callback returns
    /\ (write_input_data_try_lock /\ lock # "free") =>
          /\ callback_pc' = "idle"
          /\ rec_log'.dropped = rec_log.dropped + 1
          /\ rec_log'.written = rec_log.written
    \* start while recording and stop while not recording fail and change
    \* nothing of the recorder
    /\ (utils /\ \E device_ok \in BOOLEAN : start_recording_enter(device_ok)) =>
          /\ rec_log'.last = "Err(already recording)"
          /\ UNCHANGED recorderv
    /\ (~utils /\ stop_recording_take) =>
          /\ rec_log'.last = "Err(not recording)"
          /\ UNCHANGED recorderv

\* C30: under every interleaving of the callback with start_recording and
\* stop_recording: no sample is written to a writer that stop_recording
\* has taken and finalized; the callback never waits for the writer's lock,
\* a contended try_lock drops the buffer; start_recording while recording
\* and stop_recording while not recording return an error and leave the
\* recorder as it was; and between calls the recorder holds a writer and a
\* stream exactly while a recording is in progress.
C30_RecorderAndCallback ==
    []RecorderConsistent /\ [][RecorderStep]_vars

\* C30 witness: a recording was started and stopped; the callback wrote a
\* buffer while it ran and lost one to the lock that stop_recording held
C30_Witness ==
    /\ main_pc = "idle" /\ ~utils
    /\ rec_log.last = "Ok"
    /\ rec_log.written > 0
    /\ rec_log.dropped > 0
    /\ writer = "none" /\ stream = "none"

====
